---- MODULE Spec2Model ----
(***************************************************************************)
(* Model of the tls-scrape scan engine.                                    *)
(*                                                                         *)
(*  - ChunkSlice / ChunkIPSlice   (pkg/scraper/utils.go)                   *)
(*  - ScrapeTLS / ScrapeIPTLS     (the orchestrator: one goroutine per     *)
(*    target, a semaphore channel of capacity `concurrency`, a WaitGroup,  *)
(*    a closer goroutine and the collecting caller)                        *)
(*  - ScanDomainsInternal / ScanIPAddressesInternal (one orchestrator run  *)
(*    per chunk, results concatenated, failures merged by key)             *)
(*  - ParseIPOrSubnet / NextIP / CompareIPs / GetIPsInRange                *)
(*    (internal/helper/ip.go), addresses as byte sequences                 *)
(*  - fetchFromDomainWithDialer / fetchFromIPWithDialer (one probe: dial,  *)
(*    reverse lookup, chain verification, validity window)                 *)
(*  - IsConnectionError / isHostnameInCert (pure helpers on texts)         *)
(*  - OCSPChecker.GetOCSPResp / CheckOCSPStatus                            *)
(*  - main / validateConfig (cmd/tls-scrape)                               *)
(*                                                                         *)
(* The domain and the IP variants of each function have the same control   *)
(* flow; a target is modelled by its identifier (domain name or IP text).  *)
(***************************************************************************)
EXTENDS Integers, Sequences, FiniteSets, TLC

\* ------------------------------------------------------------------ bounds
\* longest target list handed to a multi-batch scan
MaxLen == 3
\* largest concurrency limit
MaxConc == 2
\* largest chunk size handed to a multi-batch scan
MaxChunk == 3
\* longest target list of a scan whose liveness is checked
MaxFairLen == 2
\* longest list handed to ChunkSlice alone
MaxSliceLen == 5
\* largest chunk size handed to ChunkSlice alone
MaxSliceChunk == 5
\* longest address list GetIPsInRange is followed to
MaxEnum == 260

\* target identifiers (domain names or IP literals); the engine never looks
\* inside one, it only copies and compares them
Names == {"a", "b", "c"}
NameIdx(n) == IF n = "a" THEN 1 ELSE IF n = "b" THEN 2 ELSE 3
\* identifiers of the elements of a list chunked on its own
Elems == {"a", "b", "c"}
\* the error value a probe returns: nil, or the error of the probe of one
\* list position (every failed probe returns an error value of its own)
NoError == [nil |-> TRUE, probe |-> 0]
ProbeError(p) == [nil |-> FALSE, probe |-> p]

VARIABLES
    \* ---- ChunkSlice(slice, chunkSize): arguments, loop index, result
    cslice, csize, ci, chunks, cpc,
    \* ---- ScanDomainsInternal(domains, concurrency, chunkSize, port)
    domains, concurrency, chunkSize, scanpc, k, allCertDetails, allErrors,
    \* ---- ScrapeTLS(websites, concurrency): channels, semaphore, WaitGroup
    websites, runpc, di, results, errorChan, resultsClosed, errorsClosed,
    sem, wg, closerpc, details, multiError, retDetails, retErr,
    \* ---- one goroutine per target: position, and the error fetch returned
    pc, terr,
    \* ---- process-wide metrics (pkg/scraper/metrics.go)
    totalScrapes, scrapeDuration,
    \* ---- the environment: the list position whose probe never returns (0: none)
    slow,
    \* ---- history: list positions whose probe began / how each probe ended
    attempted, outcome,
    \* ---- ParseIPOrSubnet(ipOrSubnet): the argument, the position, the result
    ipOrSubnet, ppc, parsed,
    \* ---- GetIPsInRange(ipRange): the argument, the loop variable, the result
    ipRange, ip, ips, gpc,
    \* ---- a call of NextIP(ip1) or of CompareIPs(ip1, ip2): the arguments as
    \*      the caller passed them, the caller's buffer and the result after it
    ip1, ip2, hpc, hbuf, hres,
    \* ---- the buffers behind the list GetIPsInRange returns and its caller:
    \*      the positions of the list whose slice is ipRange.Start itself,
    \*      the list the first enumeration returned, the enumeration's number
    shared, first, round,
    \* ---- one probe (fetchFromDomainWithDialer / fetchFromIPWithDialer): the
    \*      kind of target, what the peer and the clock present, the position,
    \*      the returned error, the record being filled and the options
    \*      handed to cert.Verify
    probeKind, peer, fpc, fret, cd, opts,
    \* ---- one call of a pure helper (IsConnectionError, isHostnameInCert):
    \*      the function, its arguments, its result
    fn, arg, ret,
    \* ---- one call of an OCSPChecker method: the checker and what its
    \*      responder does, the method, the position, the requests posted so
    \*      far, the returned values
    checker, method, opc, requests, oret,
    \* ---- main: the loaded configuration, the position, the scans started,
    \*      the message of log.Fatal
    config, mpc, started, fatal,
    \* ---- one call of reverseDNSLookup(ip): what the resolver answers, the
    \*      result channel, the caller's position, the lookup goroutine's
    \*      position, whether the five-second timer has fired, the returned
    \*      values and the case of the select that returned them
    resolver, resultChan, lpc, gopc, timerFired, lret, lvia,
    \* ---- one call of ParsePort(port): the argument, the returned values
    port, portRet

chunkVars == <<cslice, csize, ci, chunks, cpc>>
scanVars  == <<domains, concurrency, chunkSize, scanpc, k, allCertDetails, allErrors>>
runVars   == <<websites, runpc, di, results, errorChan, resultsClosed, errorsClosed,
               sem, wg, closerpc, details, multiError, retDetails, retErr>>
taskVars  == <<pc, terr>>
metricVars == <<totalScrapes, scrapeDuration>>
histVars  == <<attempted, outcome>>
ipVars    == <<ipOrSubnet, ppc, parsed, ipRange, ip, ips, gpc, ip1, ip2, hpc, hbuf, hres,
               shared, first, round>>
probeVars == <<probeKind, peer, fpc, fret, cd, opts>>
helperVars == <<fn, arg, ret>>
ocspVars  == <<checker, method, opc, requests, oret>>
mainVars  == <<config, mpc, started, fatal>>
lookupVars == <<resolver, resultChan, lpc, gopc, timerFired, lret, lvia>>
portVars  == <<port, portRet>>
pkgVars   == <<helperVars, ocspVars, mainVars, lookupVars, portVars>>
vars == <<chunkVars, scanVars, runVars, taskVars, metricVars, slow, histVars,
          ipVars, probeVars, pkgVars>>

\* ------------------------------------------------------------------ helpers
\* all sequences over S of length 0..n
BSeq(S, n) == UNION {[1..m -> S] : m \in 0..n}

\* a Go map with no entries
EmptyMap == [n \in {} |-> NoError]

\* m[key] = e  (a later write for a key overwrites the earlier one)
MapSet(m, key, e) == [n \in (DOMAIN m) \cup {key} |-> IF n = key THEN e ELSE m[n]]

\* a merge that keeps only the failures of the latest batch
MapMergeReplaces(dst, src) == src

\* a merge in which the earlier run's failure for a key is kept
MapMergeKeepsEarlier(dst, src) == [n \in (DOMAIN dst) \cup (DOMAIN src) |->
                                      IF n \in DOMAIN dst THEN dst[n] ELSE src[n]]

\* for key, e := range src { dst[key] = e }
MapMerge(dst, src) == [n \in (DOMAIN dst) \cup (DOMAIN src) |->
                          IF n \in DOMAIN src THEN src[n] ELSE dst[n]]

\* slice[i:end] with 0-based i, exclusive end
GoSlice(s, i, end) == SubSeq(s, i + 1, end)

\* target lists up to a renaming of the identifiers: the j-th new identifier
\* of a list is the j-th name (<<a,b,a>>, not <<b,c,b>>); lists with repeated
\* targets and lists of pairwise distinct targets are both included
Canonical(s) ==
    \A i \in DOMAIN s :
        \/ NameIdx(s[i]) = 1
        \/ \E j \in 1 .. i - 1 : NameIdx(s[j]) >= NameIdx(s[i]) - 1

TargetListsUpTo(n) == {s \in BSeq(Names, n) : Canonical(s)}

TargetLists == TargetListsUpTo(MaxLen)

\* no identifier occurs twice
Distinct(s) == \A i, j \in DOMAIN s : s[i] = s[j] => i = j

RECURSIVE Flatten(_)
Flatten(ss) == IF ss = <<>> THEN <<>> ELSE Head(ss) \o Flatten(Tail(ss))

RECURSIVE SumLen(_, _)
\* number of elements in the first n batches
SumLen(ss, n) == IF n = 0 THEN 0 ELSE SumLen(ss, n - 1) + Len(ss[n])


\* ------------------------------------------------------------------ ChunkSlice
\* a guard that lets a chunk size of 0 through
ChunkSizeRejectedNegativeOnly(size) == size < 0

\* utils.go:11  if chunkSize <= 0 { return chunks }
ChunkSizeRejected(size) == size <= 0

\* a clamp that cuts the last element off the final batch
ChunkEndOffByOne(i, size, n) == IF i + size >= n THEN n - 1 ELSE i + size

\* utils.go:15-18  end := i + chunkSize; if end > len(slice) { end = len(slice) }
ChunkEnd(i, size, n) == IF i + size > n THEN n ELSE i + size

\* utils.go:9-14: chunks := [][]string{}; the guard; the loop's i := 0
ChunkCall ==
    /\ cpc = "call"
    /\ chunks' = <<>>
    /\ ci' = 0
    /\ cpc' = IF ChunkSizeRejected(csize) THEN "done" ELSE "loop"
    /\ UNCHANGED <<cslice, csize>>
    /\ UNCHANGED <<scanVars, runVars, taskVars, metricVars, slow, ipVars, probeVars, pkgVars, histVars>>

\* utils.go:14-20: one iteration of the loop
ChunkIter ==
    /\ cpc = "loop"
    /\ ci < Len(cslice)
    /\ chunks' = Append(chunks, GoSlice(cslice, ci, ChunkEnd(ci, csize, Len(cslice))))
    /\ ci' = ci + csize
    /\ UNCHANGED <<cslice, csize, cpc>>
    /\ UNCHANGED <<scanVars, runVars, taskVars, metricVars, slow, ipVars, probeVars, pkgVars, histVars>>

\* utils.go:14,21: the loop condition fails; return chunks
ChunkReturn ==
    /\ cpc = "loop"
    /\ ~(ci < Len(cslice))
    /\ cpc' = "done"
    /\ UNCHANGED <<cslice, csize, ci, chunks>>
    /\ UNCHANGED <<scanVars, runVars, taskVars, metricVars, slow, ipVars, probeVars, pkgVars, histVars>>

ChunkNext == ChunkCall \/ ChunkIter \/ ChunkReturn

\* ------------------------------------------------------------------ idle parts
ChunkIdle ==
    /\ cslice = <<>> /\ csize = 0 /\ ci = 0 /\ chunks = <<>> /\ cpc = "idle"

RunIdle ==
    /\ websites = <<>> /\ runpc = "idle" /\ di = 0
    /\ results = <<>> /\ errorChan = <<>>
    /\ resultsClosed = FALSE /\ errorsClosed = FALSE
    /\ sem = 0 /\ wg = 0 /\ closerpc = "none"
    /\ details = <<>> /\ multiError = EmptyMap
    /\ retDetails = <<>> /\ retErr = [nil |-> TRUE, Errors |-> EmptyMap]
    /\ pc = <<>> /\ terr = <<>>

MetricsZero ==
    /\ totalScrapes = [success |-> 0, failed |-> 0]
    /\ scrapeDuration = [n \in Names |-> 0]

HistEmpty == attempted = {} /\ outcome = EmptyMap

ScanIdle ==
    /\ domains = <<>> /\ concurrency = 1 /\ chunkSize = 1
    /\ scanpc = "idle" /\ k = 0
    /\ allCertDetails = <<>> /\ allErrors = EmptyMap

\* a nil net.IP (a slice of length 0) and a nil *IPRange
NilIP == <<>>
NilRange == [nil |-> TRUE, Start |-> NilIP, End |-> NilIP]

\* no text handed to ParseIPOrSubnet
NoText == [slash |-> FALSE, fam |-> "none", addr |-> NilIP, plen |-> 0]

\* what ParseIPOrSubnet has produced before it is called
NoParse == [panic |-> FALSE, err |-> FALSE, range |-> NilRange]

\* what a helper call has produced before it is made
NoResult == [panic |-> FALSE, val |-> 0, next |-> NilIP]

IpIdle ==
    /\ ipOrSubnet = NoText /\ ppc = "idle" /\ parsed = NoParse
    /\ ipRange = NilRange /\ ip = NilIP /\ ips = <<>> /\ gpc = "idle"
    /\ ip1 = NilIP /\ ip2 = NilIP /\ hpc = "idle" /\ hbuf = NilIP /\ hres = NoResult
    /\ shared = {} /\ first = <<>> /\ round = 0

\* a peer and a clock nobody has looked at, and a record nobody has filled
NoCert == [CommonName |-> <<>>, DNSNames |-> <<>>]
NoLookup == [timeout |-> FALSE, err |-> FALSE, names |-> <<>>]
NoPeer == [dialErr |-> FALSE, err |-> [nil |-> TRUE, kind |-> "nil"], conn |-> FALSE,
           getter |-> TRUE, certs |-> 0, cert |-> NoCert, lookup |-> NoLookup,
           verify |-> "ok", now |-> 0, notBefore |-> 0, notAfter |-> 0]
\* the zero value of CertDetails / IPCertDetails: every field unset
EmptyRecord == [Domain |-> "", Serial |-> "", CertChain |-> 0, Valid |-> FALSE,
                ValidationErrs |-> <<>>, IP |-> "", Hostname |-> <<>>,
                HostnameInCert |-> FALSE, SANs |-> <<>>]
\* x509.VerifyOptions before it is built: no DNSName
NoOpts == [built |-> FALSE, DNSName |-> <<>>]

ProbeIdle ==
    /\ probeKind = "none" /\ peer = NoPeer /\ fpc = "idle"
    /\ fret = [nil |-> TRUE, kind |-> "nil"] /\ cd = EmptyRecord /\ opts = NoOpts

\* a nil error, the arguments and the result of a helper nobody has called
NilError == [nil |-> TRUE, msg |-> <<>>]
NoArg == [err |-> NilError, cert |-> NoCert, hostname |-> <<>>]
NoRet == [done |-> FALSE, val |-> FALSE]
HelperIdle == fn = "none" /\ arg = NoArg /\ ret = NoRet

\* an OCSPChecker nobody has called: no responder URL, nothing returned
NoChecker == [servers |-> <<>>, create |-> "ok", post |-> "ok", read |-> "ok",
              parse |-> "ok", hasCert |-> FALSE, reparse |-> "ok", status |-> "Good"]
NoOcspResult == [got |-> [returned |-> FALSE, resp |-> "nil", err |-> "nil"],
                 check |-> [returned |-> FALSE, err |-> "nil"]]
NoRequests == [built |-> 0, posted |-> <<>>]
OcspIdle ==
    /\ checker = NoChecker /\ method = "none" /\ opc = "idle"
    /\ requests = NoRequests /\ oret = NoOcspResult

\* a main that is not running: the zero Config, no scan started
NoConfig == [FQDN |-> "", FilePath |-> "", IPAddr |-> "", Subnet |-> ""]
MainIdle == config = NoConfig /\ mpc = "idle" /\ started = <<>> /\ fatal = ""

NoAnswer == [err |-> FALSE, names |-> <<>>]
NoLookupRet == [returned |-> FALSE, hostname |-> <<>>, err |-> "nil"]
LookupIdle ==
    /\ resolver = NoAnswer /\ resultChan = <<>> /\ lpc = "idle" /\ gopc = "none"
    /\ timerFired = FALSE /\ lret = NoLookupRet /\ lvia = "none"

NoPortRet == [returned |-> FALSE, val |-> 0, err |-> "nil"]
PortIdle == port = <<>> /\ portRet = NoPortRet

PkgIdle == HelperIdle /\ OcspIdle /\ MainIdle /\ LookupIdle /\ PortIdle

\* ------------------------------------------------------------------ ChunkSlice alone
\* a call of ChunkSlice / ChunkIPSlice on any list with any chunk size
ChunkInit ==
    /\ cslice \in BSeq(Elems, MaxSliceLen)
    /\ csize \in -2 .. MaxSliceChunk
    /\ ci = 0 /\ chunks = <<>> /\ cpc = "call"
    /\ ScanIdle /\ RunIdle /\ MetricsZero /\ HistEmpty /\ slow = 0
    /\ IpIdle /\ ProbeIdle /\ PkgIdle

ChunkSpec == ChunkInit /\ [][ChunkNext]_vars


\* ------------------------------------------------------------------ ScrapeTLS
\* the tasks of the current run
Tasks == 1 .. Len(websites)

\* position in the whole target list of task t of the current run
Pos(t) == SumLen(chunks, k - 1) + t

\* a semaphore that admits one task too many
SemHasRoomOffByOne == sem <= concurrency

\* a semaphore of one slot whatever the limit: make(chan struct{}, 1)
SemSingleSlot == sem < 1

\* a limit of 0 read as no limit at all
SemUnlimitedOnZero == concurrency = 0 \/ sem < concurrency

\* sem <- struct{}{} can proceed: the channel buffer has room
SemHasRoom == sem < concurrency

\* a closer that does not wait for the tasks
WaitGroupIgnored == TRUE

\* wg.Wait() can return
WaitGroupZero == wg = 0

\* a channel constructor that rejects a capacity of 0 too
MakeChanPanicsOnZero(n) == n <= 0

\* make(chan ..., n) panics for n < 0
MakeChanPanics(n) == n < 0

\* ScrapeTLS, entry: the two result channels, the semaphore, the WaitGroup
ScrapeEntry(sites) ==
    /\ websites' = sites
    /\ results' = <<>> /\ errorChan' = <<>>
    /\ resultsClosed' = FALSE /\ errorsClosed' = FALSE
    /\ sem' = 0 /\ wg' = 0 /\ closerpc' = "none"
    /\ details' = <<>> /\ multiError' = EmptyMap
    /\ pc' = [t \in 1 .. Len(sites) |-> "idle"]
    /\ terr' = [t \in 1 .. Len(sites) |-> NoError]
    /\ di' = 1
    /\ runpc' = IF MakeChanPanics(concurrency) THEN "panic" ELSE "dispatch"
    /\ UNCHANGED <<retDetails, retErr>>

\* for _, website := range websites { wg.Add(1); go func(site) {...}(website) }
Dispatch ==
    /\ runpc = "dispatch"
    /\ di <= Len(websites)
    /\ wg' = wg + 1
    /\ pc' = [pc EXCEPT ![di] = "acquire"]
    /\ di' = di + 1
    /\ UNCHANGED <<websites, runpc, results, errorChan, resultsClosed, errorsClosed,
                   sem, closerpc, details, multiError, retDetails, retErr, terr>>
    /\ UNCHANGED <<chunkVars, scanVars, metricVars, slow, ipVars, probeVars, pkgVars, histVars>>

\* go func() { wg.Wait(); close(results); close(errorChan) }(), then the
\* caller declares details and multiError and starts ranging over results
SpawnCloser ==
    /\ runpc = "dispatch"
    /\ di > Len(websites)
    /\ closerpc' = "wait"
    /\ runpc' = "rangeResults"
    /\ details' = <<>>
    /\ multiError' = EmptyMap
    /\ UNCHANGED <<websites, di, results, errorChan, resultsClosed, errorsClosed,
                   sem, wg, retDetails, retErr>>
    /\ UNCHANGED <<chunkVars, scanVars, taskVars, metricVars, slow, ipVars, probeVars, pkgVars, histVars>>

\* sem <- struct{}{}; the timer is created; fetchFromDomain(site) is called
Acquire(t) ==
    /\ runpc \in {"dispatch", "rangeResults", "rangeErrors"}
    /\ pc[t] = "acquire"
    /\ SemHasRoom
    /\ sem' = sem + 1
    /\ pc' = [pc EXCEPT ![t] = "fetch"]
    /\ attempted' = attempted \cup {Pos(t)}
    /\ UNCHANGED <<websites, runpc, di, results, errorChan, resultsClosed,
                   errorsClosed, wg, closerpc, details, multiError, retDetails,
                   retErr, terr, outcome>>
    /\ UNCHANGED <<chunkVars, scanVars, metricVars, slow, ipVars, probeVars, pkgVars>>

\* a task that returns from its probe without releasing its slot
FetchReturnKeepsSlot(t, ok) ==
    /\ runpc \in {"dispatch", "rangeResults", "rangeErrors"}
    /\ pc[t] = "fetch"
    /\ Pos(t) # slow
    /\ terr' = [terr EXCEPT ![t] = IF ok THEN NoError ELSE ProbeError(Pos(t))]
    /\ pc' = [pc EXCEPT ![t] = "deposit"]
    /\ outcome' = MapSet(outcome, Pos(t), IF ok THEN "ok" ELSE "failed")
    /\ UNCHANGED <<runVars, chunkVars, scanVars, metricVars, slow, ipVars, probeVars, pkgVars, attempted>>

\* a task that releases its slot only when its probe succeeded
FetchReturnReleasesOnSuccess(t, ok) ==
    /\ runpc \in {"dispatch", "rangeResults", "rangeErrors"}
    /\ pc[t] = "fetch"
    /\ Pos(t) # slow
    /\ sem > 0
    /\ terr' = [terr EXCEPT ![t] = IF ok THEN NoError ELSE ProbeError(Pos(t))]
    /\ sem' = IF ok THEN sem - 1 ELSE sem
    /\ pc' = [pc EXCEPT ![t] = "deposit"]
    /\ outcome' = MapSet(outcome, Pos(t), IF ok THEN "ok" ELSE "failed")
    /\ UNCHANGED <<websites, runpc, di, results, errorChan, resultsClosed,
                   errorsClosed, wg, closerpc, details, multiError, retDetails,
                   retErr>>
    /\ UNCHANGED <<chunkVars, scanVars, metricVars, slow, ipVars, probeVars, pkgVars, attempted>>

\* fetchFromDomain(site) returns nil or an error and the task releases its
\* slot (<-sem, which never blocks for the holder of a slot); the probe of
\* the slow position never returns
FetchReturn(t, ok) ==
    /\ runpc \in {"dispatch", "rangeResults", "rangeErrors"}
    /\ pc[t] = "fetch"
    /\ Pos(t) # slow
    /\ sem > 0
    /\ terr' = [terr EXCEPT ![t] = IF ok THEN NoError ELSE ProbeError(Pos(t))]
    /\ sem' = sem - 1
    /\ pc' = [pc EXCEPT ![t] = "deposit"]
    /\ outcome' = MapSet(outcome, Pos(t), IF ok THEN "ok" ELSE "failed")
    /\ UNCHANGED <<websites, runpc, di, results, errorChan, resultsClosed,
                   errorsClosed, wg, closerpc, details, multiError, retDetails,
                   retErr>>
    /\ UNCHANGED <<chunkVars, scanVars, metricVars, slow, ipVars, probeVars, pkgVars, attempted>>

\* a counter that loses its increments
IncLost(counter, label) == counter

\* totalScrapes.WithLabelValues(label).Inc()
Inc(counter, label) == [counter EXCEPT ![label] = @ + 1]

\* timer.ObserveDuration(): one observation in the summary's series of label
Observe(summary, label) == [summary EXCEPT ![label] = @ + 1]

\* a task that ignores the probe's error and always deposits a record
DepositsRecordAlways(e) == TRUE

\* if err != nil: the task reports a failure, otherwise it deposits its record
DepositsRecord(e) == e.nil

\* result channels of capacity 1: make(chan ..., 1)
HasRoomForOne(ch) == Len(ch) < 1

\* make(chan *CertDetails, len(websites)), make(chan map[string]error,
\* len(websites)): a send proceeds while the buffer holds fewer messages
\* than there are targets
HasRoom(ch) == Len(ch) < Len(websites)

\* if err != nil { errorChan <- {site: err}; failed.Inc(); return }
\* success.Inc(); results <- certInfo
\* (a send on a full channel blocks, a send on a closed channel panics);
\* then the function returns and the deferred timer.ObserveDuration() runs
Deposit(t) ==
    /\ runpc \in {"dispatch", "rangeResults", "rangeErrors"}
    /\ pc[t] = "deposit"
    /\ IF ~DepositsRecord(terr[t])
       THEN /\ errorsClosed \/ HasRoom(errorChan)
            /\ IF errorsClosed
               THEN /\ runpc' = "panic"
                    /\ UNCHANGED <<errorChan, totalScrapes, scrapeDuration, pc>>
               ELSE /\ errorChan' = Append(errorChan, [key |-> websites[t], err |-> terr[t]])
                    /\ totalScrapes' = Inc(totalScrapes, "failed")
                    /\ scrapeDuration' = Observe(scrapeDuration, websites[t])
                    /\ pc' = [pc EXCEPT ![t] = "wgdone"]
                    /\ UNCHANGED runpc
            /\ UNCHANGED results
       ELSE /\ resultsClosed \/ HasRoom(results)
            /\ IF resultsClosed
               THEN /\ runpc' = "panic"
                    /\ totalScrapes' = Inc(totalScrapes, "success")
                    /\ UNCHANGED <<results, scrapeDuration, pc>>
               ELSE /\ results' = Append(results, [Domain |-> websites[t]])
                    /\ totalScrapes' = Inc(totalScrapes, "success")
                    /\ scrapeDuration' = Observe(scrapeDuration, websites[t])
                    /\ pc' = [pc EXCEPT ![t] = "wgdone"]
                    /\ UNCHANGED runpc
            /\ UNCHANGED errorChan
    /\ UNCHANGED <<websites, di, resultsClosed, errorsClosed, sem, wg, closerpc,
                   details, multiError, retDetails, retErr, terr>>
    /\ UNCHANGED <<chunkVars, scanVars, slow, ipVars, probeVars, pkgVars, histVars>>

\* deferred wg.Done()
WgDone(t) ==
    /\ runpc \in {"dispatch", "rangeResults", "rangeErrors"}
    /\ pc[t] = "wgdone"
    /\ wg' = wg - 1
    /\ pc' = [pc EXCEPT ![t] = "finished"]
    /\ UNCHANGED <<websites, runpc, di, results, errorChan, resultsClosed,
                   errorsClosed, sem, closerpc, details, multiError, retDetails,
                   retErr, terr>>
    /\ UNCHANGED <<chunkVars, scanVars, metricVars, slow, ipVars, probeVars, pkgVars, histVars>>

\* the closer goroutine: wg.Wait() returns
CloserWait ==
    /\ closerpc = "wait"
    /\ WaitGroupZero
    /\ closerpc' = "closeResults"
    /\ UNCHANGED <<websites, runpc, di, results, errorChan, resultsClosed,
                   errorsClosed, sem, wg, details, multiError, retDetails, retErr>>
    /\ UNCHANGED <<chunkVars, scanVars, taskVars, metricVars, slow, ipVars, probeVars, pkgVars, histVars>>

\* the closer goroutine: close(results)
CloseResults ==
    /\ closerpc = "closeResults"
    /\ resultsClosed' = TRUE
    /\ closerpc' = "closeErrors"
    /\ UNCHANGED <<websites, runpc, di, results, errorChan, errorsClosed, sem, wg,
                   details, multiError, retDetails, retErr>>
    /\ UNCHANGED <<chunkVars, scanVars, taskVars, metricVars, slow, ipVars, probeVars, pkgVars, histVars>>

\* the closer goroutine: close(errorChan)
CloseErrors ==
    /\ closerpc = "closeErrors"
    /\ errorsClosed' = TRUE
    /\ closerpc' = "done"
    /\ UNCHANGED <<websites, runpc, di, results, errorChan, resultsClosed, sem, wg,
                   details, multiError, retDetails, retErr>>
    /\ UNCHANGED <<chunkVars, scanVars, taskVars, metricVars, slow, ipVars, probeVars, pkgVars, histVars>>

\* for res := range results { details = append(details, res) }: one receive
RecvResult ==
    /\ runpc = "rangeResults"
    /\ results # <<>>
    /\ details' = Append(details, Head(results))
    /\ results' = Tail(results)
    /\ UNCHANGED <<websites, runpc, di, errorChan, resultsClosed, errorsClosed, sem,
                   wg, closerpc, multiError, retDetails, retErr>>
    /\ UNCHANGED <<chunkVars, scanVars, taskVars, metricVars, slow, ipVars, probeVars, pkgVars, histVars>>

\* the range over results ends: the channel is closed and drained
ResultsDrained ==
    /\ runpc = "rangeResults"
    /\ results = <<>>
    /\ resultsClosed
    /\ runpc' = "rangeErrors"
    /\ UNCHANGED <<websites, di, results, errorChan, resultsClosed, errorsClosed,
                   sem, wg, closerpc, details, multiError, retDetails, retErr>>
    /\ UNCHANGED <<chunkVars, scanVars, taskVars, metricVars, slow, ipVars, probeVars, pkgVars, histVars>>

\* for err := range errorChan { for domain, e := range err { Errors[domain] = e } }
RecvError ==
    /\ runpc = "rangeErrors"
    /\ errorChan # <<>>
    /\ multiError' = MapSet(multiError, Head(errorChan).key, Head(errorChan).err)
    /\ errorChan' = Tail(errorChan)
    /\ UNCHANGED <<websites, runpc, di, results, resultsClosed, errorsClosed, sem,
                   wg, closerpc, details, retDetails, retErr>>
    /\ UNCHANGED <<chunkVars, scanVars, taskVars, metricVars, slow, ipVars, probeVars, pkgVars, histVars>>

\* a run that returns its MultiError even when it is empty
ReturnValueAlwaysError(me) == [nil |-> FALSE, Errors |-> me]

\* if len(multiError.Errors) > 0 { return details, multiError }; return details, nil
ReturnValue(me) ==
    IF Cardinality(DOMAIN me) > 0
    THEN [nil |-> FALSE, Errors |-> me]
    ELSE [nil |-> TRUE, Errors |-> EmptyMap]

\* the range over errorChan ends; ScrapeTLS returns
ScrapeReturn ==
    /\ runpc = "rangeErrors"
    /\ errorChan = <<>>
    /\ errorsClosed
    /\ retDetails' = details
    /\ retErr' = ReturnValue(multiError)
    /\ runpc' = "returned"
    /\ UNCHANGED <<websites, di, results, errorChan, resultsClosed, errorsClosed,
                   sem, wg, closerpc, details, multiError>>
    /\ UNCHANGED <<chunkVars, scanVars, taskVars, metricVars, slow, ipVars, probeVars, pkgVars, histVars>>

RunNext ==
    \/ Dispatch \/ SpawnCloser
    \/ \E t \in Tasks : Acquire(t)
    \/ \E t \in Tasks : \E ok \in BOOLEAN : FetchReturn(t, ok)
    \/ \E t \in Tasks : Deposit(t)
    \/ \E t \in Tasks : WgDone(t)
    \/ CloserWait \/ CloseResults \/ CloseErrors
    \/ RecvResult \/ ResultsDrained \/ RecvError \/ ScrapeReturn


\* ------------------------------------------------------------------ ScanDomainsInternal
\* chunks := scraper.ChunkSlice(domains, chunkSize): the call
ScanStart ==
    /\ scanpc = "start"
    /\ cslice' = domains
    /\ csize' = chunkSize
    /\ cpc' = "call"
    /\ scanpc' = "chunking"
    /\ UNCHANGED <<ci, chunks>>
    /\ UNCHANGED <<domains, concurrency, chunkSize, k, allCertDetails, allErrors>>
    /\ UNCHANGED <<runVars, taskVars, metricVars, slow, ipVars, probeVars, pkgVars, histVars>>

\* ChunkSlice has returned; var allCertDetails; allErrors := make(map[string]error)
ScanChunked ==
    /\ scanpc = "chunking"
    /\ cpc = "done"
    /\ allCertDetails' = <<>>
    /\ allErrors' = EmptyMap
    /\ k' = 1
    /\ scanpc' = "loop"
    /\ UNCHANGED <<domains, concurrency, chunkSize>>
    /\ UNCHANGED <<chunkVars, runVars, taskVars, metricVars, slow, ipVars, probeVars, pkgVars, histVars>>

\* a scan that hands the whole list to every run: scraper.ScrapeTLS(domains, ...)
ScanCallScrapeWholeList ==
    /\ scanpc = "loop"
    /\ k <= Len(chunks)
    /\ ScrapeEntry(domains)
    /\ scanpc' = "inrun"
    /\ UNCHANGED <<domains, concurrency, chunkSize, k, allCertDetails, allErrors>>
    /\ UNCHANGED <<chunkVars, metricVars, slow, ipVars, probeVars, pkgVars, histVars>>

\* for _, chunk := range chunks { details, err := scraper.ScrapeTLS(chunk, ...): the call
ScanCallScrape ==
    /\ scanpc = "loop"
    /\ k <= Len(chunks)
    /\ ScrapeEntry(chunks[k])
    /\ scanpc' = "inrun"
    /\ UNCHANGED <<domains, concurrency, chunkSize, k, allCertDetails, allErrors>>
    /\ UNCHANGED <<chunkVars, metricVars, slow, ipVars, probeVars, pkgVars, histVars>>

\* a scan that stops at the first batch that reports a failure
ScanMergeAbortsOnError ==
    /\ scanpc = "inrun"
    /\ runpc = "returned"
    /\ allErrors' = IF ~retErr.nil THEN MapMerge(allErrors, retErr.Errors) ELSE allErrors
    /\ allCertDetails' = allCertDetails \o retDetails
    /\ k' = k + 1
    /\ scanpc' = IF ~retErr.nil THEN "done" ELSE "loop"
    /\ runpc' = "idle"
    /\ UNCHANGED <<domains, concurrency, chunkSize>>
    /\ UNCHANGED <<websites, di, results, errorChan, resultsClosed, errorsClosed,
                   sem, wg, closerpc, details, multiError, retDetails, retErr>>
    /\ UNCHANGED <<chunkVars, taskVars, metricVars, slow, ipVars, probeVars, pkgVars, histVars>>

\* ScrapeTLS has returned: merge its MultiError, append its details
ScanMerge ==
    /\ scanpc = "inrun"
    /\ runpc = "returned"
    /\ allErrors' = IF ~retErr.nil THEN MapMerge(allErrors, retErr.Errors) ELSE allErrors
    /\ allCertDetails' = allCertDetails \o retDetails
    /\ k' = k + 1
    /\ scanpc' = "loop"
    /\ runpc' = "idle"
    /\ UNCHANGED <<domains, concurrency, chunkSize>>
    /\ UNCHANGED <<websites, di, results, errorChan, resultsClosed, errorsClosed,
                   sem, wg, closerpc, details, multiError, retDetails, retErr>>
    /\ UNCHANGED <<chunkVars, taskVars, metricVars, slow, ipVars, probeVars, pkgVars, histVars>>

\* the range over chunks ends; return allCertDetails, allErrors
ScanReturn ==
    /\ scanpc = "loop"
    /\ k > Len(chunks)
    /\ scanpc' = "done"
    /\ UNCHANGED <<domains, concurrency, chunkSize, k, allCertDetails, allErrors>>
    /\ UNCHANGED <<chunkVars, runVars, taskVars, metricVars, slow, ipVars, probeVars, pkgVars, histVars>>

ScanNext == ScanStart \/ ScanChunked \/ ScanCallScrape \/ ScanMerge \/ ScanReturn

\* ------------------------------------------------------------------ specifications
\* a multi-batch scan of a target list with any concurrency and chunk size
ScanInitOf(lists) ==
    /\ domains \in lists
    /\ concurrency \in -1 .. MaxConc
    /\ chunkSize \in -1 .. MaxChunk
    /\ scanpc = "start" /\ k = 0
    /\ allCertDetails = <<>> /\ allErrors = EmptyMap
    /\ ChunkIdle /\ RunIdle /\ MetricsZero /\ HistEmpty
    /\ IpIdle /\ ProbeIdle /\ PkgIdle

Init == ScanInitOf(TargetLists) /\ slow = 0

Next == ChunkNext \/ ScanNext \/ RunNext

Spec == Init /\ [][Next]_vars

\* the same scan where the probe of one list position may never return;
\* every goroutine that can take a step eventually takes one
FairInit == ScanInitOf(TargetListsUpTo(MaxFairLen)) /\ slow \in 0 .. MaxFairLen

FairSpec == FairInit /\ [][Next]_vars /\ WF_vars(Next)

\* ------------------------------------------------------------------ a run on its own
\* details, err := ScrapeTLS(domains, concurrency) called by a caller other
\* than the scan: the whole list is one run
RunCall ==
    /\ scanpc = "direct"
    /\ runpc = "idle"
    /\ ScrapeEntry(domains)
    /\ scanpc' = "directrun"
    /\ UNCHANGED <<domains, concurrency, chunkSize, k, allCertDetails, allErrors>>
    /\ UNCHANGED <<chunkVars, metricVars, slow, ipVars, probeVars, pkgVars, histVars>>

\* a multi-batch scan, or one orchestrator run, of a target list
CallInit ==
    /\ domains \in TargetListsUpTo(MaxFairLen)
    /\ concurrency \in -1 .. MaxConc
    /\ \/ chunkSize \in -1 .. MaxChunk /\ scanpc = "start" /\ k = 0
       \/ chunkSize = 1 /\ scanpc = "direct" /\ k = 1
    /\ allCertDetails = <<>> /\ allErrors = EmptyMap
    /\ ChunkIdle /\ RunIdle /\ MetricsZero /\ HistEmpty /\ slow = 0
    /\ IpIdle /\ ProbeIdle /\ PkgIdle

CallNext == RunCall \/ ChunkNext \/ ScanNext \/ RunNext

CallSpec == CallInit /\ [][CallNext]_vars

\* ------------------------------------------------------------------ addresses
\* A net.IP is a byte slice: 4 bytes for the IPv4 form, 16 bytes for the
\* IPv6 form.  The text of an address is modelled by what the Go library
\* reads out of it: the family of the literal, the bytes it denotes, whether
\* it has a '/' and the prefix length after it (-1: not a number).

\* the first 12 bytes of an IPv4-mapped IPv6 address (::ffff:a.b.c.d)
V4InV6Prefix == <<0, 0, 0, 0, 0, 0, 0, 0, 0, 0, 255, 255>>

\* ip.To4(): the 4-byte form of an IPv4 address, nil for any other address
To4(a) ==
    IF Len(a) = 4 THEN a
    ELSE IF Len(a) = 16 /\ SubSeq(a, 1, 12) = V4InV6Prefix THEN SubSeq(a, 13, 16)
    ELSE NilIP

RECURSIVE BitAnd(_, _)
\* x & y on bytes
BitAnd(x, y) ==
    IF x = 0 \/ y = 0 THEN 0
    ELSE (x % 2) * (y % 2) + 2 * BitAnd(x \div 2, y \div 2)

\* x | y on bytes
BitOr(x, y) == x + y - BitAnd(x, y)

\* ^x on a byte
BitNot(x) == 255 - x

RECURSIVE Pow2(_)
Pow2(n) == IF n <= 0 THEN 1 ELSE 2 * Pow2(n - 1)

\* net.CIDRMask(ones, bits): byte i is ^byte(0xff >> n) for its n leading ones
CIDRMask(ones, bits) ==
    [i \in 1 .. bits \div 8 |->
        LET n == ones - 8 * (i - 1)
        IN IF n >= 8 THEN 255 ELSE IF n <= 0 THEN 0 ELSE BitNot(255 \div Pow2(n))]

AllFF(m) == \A i \in DOMAIN m : m[i] = 255

\* ip.Mask(mask): a 16-byte mask is cut to 4 bytes for a 4-byte address when
\* its first 12 bytes are all ones, a 16-byte IPv4-mapped address is cut to
\* 4 bytes for a 4-byte mask; nil when the lengths still differ
IPMask(a, mask) ==
    LET m == IF Len(mask) = 16 /\ Len(a) = 4 /\ AllFF(SubSeq(mask, 1, 12))
             THEN SubSeq(mask, 13, 16) ELSE mask
        b == IF Len(mask) = 4 /\ Len(a) = 16 /\ SubSeq(a, 1, 12) = V4InV6Prefix
             THEN SubSeq(a, 13, 16) ELSE a
    IN IF Len(b) # Len(m) THEN NilIP
       ELSE [i \in 1 .. Len(b) |-> BitAnd(b[i], m[i])]

\* net.ParseIP(s): nil for an unparseable text, otherwise the 16-byte form
GoParseIP(t) ==
    IF t.fam = "v4" THEN V4InV6Prefix \o t.addr
    ELSE IF t.fam = "v6" THEN t.addr
    ELSE NilIP

\* net.ParseCIDR(s): an error for an unparseable address or prefix length,
\* otherwise the 16-byte address and a mask as long as the literal's family
GoParseCIDR(t) ==
    IF t.fam \notin {"v4", "v6"} \/ t.plen < 0 \/ t.plen > 8 * Len(t.addr)
    THEN [err |-> TRUE, ip |-> NilIP, mask |-> <<>>]
    ELSE [err |-> FALSE, ip |-> GoParseIP(t), mask |-> CIDRMask(t.plen, 8 * Len(t.addr))]

Zeros(n) == [i \in 1 .. n |-> 0]
Ones(n) == [i \in 1 .. n |-> 255]

\* IPv4 literals: a network address, a host inside it, its broadcast address,
\* the highest and the lowest address, an address one below a two-byte carry
V4Addrs == {<<192, 168, 1, 0>>, <<192, 168, 1, 77>>, <<192, 168, 1, 255>>,
            <<255, 255, 255, 255>>, <<0, 0, 0, 0>>, <<10, 0, 255, 254>>}

\* IPv6 literals: 2001:db8::1, ::ffff:192.168.1.0 (IPv4-mapped), the highest
\* address, 2001:db8::ffff:fffe
V6Addrs == {<<32, 1, 13, 184>> \o Zeros(11) \o <<1>>,
            V4InV6Prefix \o <<192, 168, 1, 0>>,
            Ones(16),
            <<32, 1, 13, 184>> \o Zeros(8) \o <<255, 255, 255, 254>>}

V4PrefixLens == {-1, 0, 8, 24, 30, 31, 32, 33}
V6PrefixLens == {-1, 0, 64, 96, 120, 126, 127, 128, 129}

\* the texts handed to ParseIPOrSubnet
Texts ==
    {[slash |-> FALSE, fam |-> "v4", addr |-> a, plen |-> 0] : a \in V4Addrs}
    \cup {[slash |-> FALSE, fam |-> "v6", addr |-> a, plen |-> 0] : a \in V6Addrs}
    \cup {[slash |-> sl, fam |-> "bad", addr |-> NilIP, plen |-> 24] : sl \in BOOLEAN}
    \cup {[slash |-> TRUE, fam |-> "v4", addr |-> a, plen |-> n] :
              a \in V4Addrs, n \in V4PrefixLens}
    \cup {[slash |-> TRUE, fam |-> "v6", addr |-> a, plen |-> n] :
              a \in V6Addrs, n \in V6PrefixLens}

\* ------------------------------------------------------------------ NextIP
RECURSIVE NextIPLoop(_, _)
\* ip.go:74-79  for i := len(next)-1; i >= 0; i-- { next[i]++; if next[i] > 0 { break } }
\* (mem holds the caller's buffer ip and the buffer next)
NextIPLoop(mem, i) ==
    IF i < 1 THEN mem
    ELSE LET inc == [mem EXCEPT !.next[i] = (@ + 1) % 256]
         IN IF inc.next[i] > 0 THEN inc ELSE NextIPLoop(inc, i - 1)

\* an increment done in the caller's buffer: next := ip
NextIPRunInPlace(a) ==
    LET r == NextIPLoop([ip |-> a, next |-> a], Len(a))
    IN [ip |-> r.next, next |-> r.next]

\* ip.go:70-82  next := make(net.IP, len(ip)); copy(next, ip); the loop; return next
NextIPRun(a) == NextIPLoop([ip |-> a, next |-> a], Len(a))

NextIP(a) == NextIPRun(a).next

\* ------------------------------------------------------------------ CompareIPs
RECURSIVE CompareLoop(_, _, _)
\* ip.go:98-106  the byte loop; an index past the end of ip2 panics
CompareLoop(a, b, i) ==
    IF i > Len(a) THEN [panic |-> FALSE, val |-> 0]
    ELSE IF i > Len(b) THEN [panic |-> TRUE, val |-> 0]
    ELSE IF a[i] < b[i] THEN [panic |-> FALSE, val |-> -1]
    ELSE IF a[i] > b[i] THEN [panic |-> FALSE, val |-> 1]
    ELSE CompareLoop(a, b, i + 1)

\* a comparison that skips the length check
CompareIPsNoLengthCheck(a, b) == CompareLoop(a, b, 1)

\* ip.go:86-107
CompareIPs(a, b) ==
    IF Len(a) # Len(b)
    THEN IF To4(a) # NilIP /\ To4(b) # NilIP
         THEN CompareLoop(To4(a), To4(b), 1)
         ELSE [panic |-> FALSE, val |-> 0]
    ELSE CompareLoop(a, b, 1)

\* ------------------------------------------------------------------ ParseIPOrSubnet
ParseOk(start, end) ==
    [panic |-> FALSE, err |-> FALSE, range |-> [nil |-> FALSE, Start |-> start, End |-> end]]
ParseErr == [panic |-> FALSE, err |-> TRUE, range |-> NilRange]
ParsePanic == [panic |-> TRUE, err |-> FALSE, range |-> NilRange]

RECURSIVE OrNotMask(_, _, _)
\* ip.go:59-61  for i := 0; i < len(ipNet.Mask); i++ { end[i] |= ^ipNet.Mask[i] }
\* (an index past the end of end panics)
OrNotMask(end, mask, i) ==
    IF i > Len(mask) THEN [panic |-> FALSE, val |-> end]
    ELSE IF i > Len(end) THEN [panic |-> TRUE, val |-> end]
    ELSE OrNotMask([end EXCEPT ![i] = BitOr(@, BitNot(mask[i]))], mask, i + 1)

\* ip.go:42-67
parseSubnet(t) ==
    LET r == GoParseCIDR(t)
        a == IF To4(r.ip) # NilIP THEN To4(r.ip) ELSE r.ip
        start == IPMask(a, r.mask)
        e == OrNotMask(start, r.mask, 1)
    IN IF r.err THEN ParseErr
       ELSE IF e.panic THEN ParsePanic
       ELSE ParseOk(start, e.val)

\* a single address kept in the form net.ParseIP returned
ParseSingleNoTo4(t) ==
    IF GoParseIP(t) = NilIP THEN ParseErr
    ELSE ParseOk(GoParseIP(t), GoParseIP(t))

\* ip.go:24-38  the single IP address
ParseSingle(t) ==
    LET a == GoParseIP(t)
    IN IF a = NilIP THEN ParseErr
       ELSE IF To4(a) # NilIP THEN ParseOk(To4(a), To4(a))
       ELSE ParseOk(a, a)

\* ip.go:18-39
ParseIPOrSubnet(t) == IF t.slash THEN parseSubnet(t) ELSE ParseSingle(t)

ProbeUnchanged == UNCHANGED probeVars
EngineUnchanged ==
    UNCHANGED <<chunkVars, scanVars, runVars, taskVars, metricVars, slow, histVars,
                pkgVars>>

\* ip_scanner.go:27-31  ipRange, err = helper.ParseIPOrSubnet(...)
ParseCall ==
    /\ ppc = "call"
    /\ parsed' = ParseIPOrSubnet(ipOrSubnet)
    /\ ppc' = IF ParseIPOrSubnet(ipOrSubnet).panic THEN "panic" ELSE "returned"
    /\ UNCHANGED <<ipOrSubnet, ipRange, ip, ips, gpc, ip1, ip2, hpc, hbuf, hres,
                   shared, first, round>>
    /\ ProbeUnchanged /\ EngineUnchanged

\* ip_scanner.go:33-37  no error: ips := helper.GetIPsInRange(ipRange)
ParsedToEnum ==
    /\ ppc = "returned"
    /\ ~parsed.err
    /\ gpc = "idle"
    /\ ipRange' = parsed.range
    /\ gpc' = "call"
    /\ UNCHANGED <<ipOrSubnet, ppc, parsed, ip, ips, ip1, ip2, hpc, hbuf, hres,
                   shared, first, round>>
    /\ ProbeUnchanged /\ EngineUnchanged

\* ------------------------------------------------------------------ GetIPsInRange
\* an append of the loop variable itself: ips = append(ips, ip), so that the
\* first slice of the list is ipRange.Start
NewIPIsIP(n) == IF n = 0 THEN {1} ELSE {}

\* ip.go:113-115  newIP := make(net.IP, len(ip)); copy(newIP, ip); the slice
\* appended after n others shares its buffer with nothing
NewIPShares(n) == {}

\* ipRange.Start after ip = NextIP(ip): during the first pass of the loop ip
\* is the slice ipRange.Start, the buffer NextIP was handed
StartAfterNextIP(r, a, n) == IF n = 0 THEN NextIPRun(a).ip ELSE r.Start

\* ip.go:111-112  var ips []net.IP; ip := ipRange.Start
EnumCall ==
    /\ gpc = "call"
    /\ ips' = <<>>
    /\ shared' = {}
    /\ ip' = ipRange.Start
    /\ gpc' = "loop"
    /\ UNCHANGED <<ipOrSubnet, ppc, parsed, ipRange, ip1, ip2, hpc, hbuf, hres,
                   first, round>>
    /\ ProbeUnchanged /\ EngineUnchanged

\* ip.go:112-116  CompareIPs(ip, ipRange.End) <= 0: append a copy, ip = NextIP(ip)
\* (the list is followed up to MaxEnum addresses)
EnumIter ==
    /\ gpc = "loop"
    /\ ~CompareIPs(ip, ipRange.End).panic
    /\ CompareIPs(ip, ipRange.End).val <= 0
    /\ Len(ips) < MaxEnum
    /\ ips' = Append(ips, ip)
    /\ shared' = shared \cup NewIPShares(Len(ips))
    /\ ipRange' = [ipRange EXCEPT !.Start = StartAfterNextIP(ipRange, ip, Len(ips))]
    /\ ip' = NextIP(ip)
    /\ UNCHANGED <<ipOrSubnet, ppc, parsed, gpc, ip1, ip2, hpc, hbuf, hres,
                   first, round>>
    /\ ProbeUnchanged /\ EngineUnchanged

\* ip.go:112,117  the loop condition fails; return ips (the caller keeps
\* the list of its first enumeration)
EnumReturn ==
    /\ gpc = "loop"
    /\ \/ CompareIPs(ip, ipRange.End).panic
       \/ ~(CompareIPs(ip, ipRange.End).val <= 0)
    /\ gpc' = IF CompareIPs(ip, ipRange.End).panic THEN "panic" ELSE "done"
    /\ first' = IF round = 1 THEN ips ELSE first
    /\ UNCHANGED <<ipOrSubnet, ppc, parsed, ipRange, ip, ips, ip1, ip2, hpc, hbuf, hres,
                   shared, round>>
    /\ ProbeUnchanged /\ EngineUnchanged

\* the slice at position j with its last byte overwritten
Overwrite(list, j) == [list EXCEPT ![j][Len(list[j])] = (@ + 1) % 256]

\* the caller writes into the first or the last address it was returned:
\* ips[j][len(ips[j])-1]++; a slice sharing the buffer of ipRange.Start
\* changes with it
CallerWrites ==
    /\ gpc = "done" /\ round = 1
    /\ \E j \in {1, Len(ips)} :
        /\ j \in DOMAIN ips /\ Len(ips[j]) > 0
        /\ ips' = Overwrite(ips, j)
        /\ ipRange' = IF j \in shared
                      THEN [ipRange EXCEPT !.Start = Overwrite(ips, j)[j]]
                      ELSE ipRange
    /\ round' = 2
    /\ UNCHANGED <<ipOrSubnet, ppc, parsed, ip, gpc, ip1, ip2, hpc, hbuf, hres,
                   shared, first>>
    /\ ProbeUnchanged /\ EngineUnchanged

\* the caller enumerates the same range once more, having written into the
\* first list or not: helper.GetIPsInRange(ipRange)
EnumAgain ==
    /\ gpc = "done" /\ round \in {1, 2}
    /\ round' = round + 2
    /\ gpc' = "call"
    /\ UNCHANGED <<ipOrSubnet, ppc, parsed, ipRange, ip, ips, ip1, ip2, hpc, hbuf, hres,
                   shared, first>>
    /\ ProbeUnchanged /\ EngineUnchanged

\* ------------------------------------------------------------------ helper calls
\* next := NextIP(ip1)
NextIPCall ==
    /\ hpc = "call"
    /\ hbuf' = NextIPRun(ip1).ip
    /\ hres' = [panic |-> FALSE, val |-> 0, next |-> NextIPRun(ip1).next]
    /\ hpc' = "next"
    /\ UNCHANGED <<ipOrSubnet, ppc, parsed, ipRange, ip, ips, gpc, ip1, ip2,
                   shared, first, round>>
    /\ ProbeUnchanged /\ EngineUnchanged

\* c := CompareIPs(ip1, ip2)
CompareIPsCall ==
    /\ hpc = "call"
    /\ hbuf' = ip1
    /\ hres' = [panic |-> CompareIPs(ip1, ip2).panic, val |-> CompareIPs(ip1, ip2).val,
                next |-> NilIP]
    /\ hpc' = "compared"
    /\ UNCHANGED <<ipOrSubnet, ppc, parsed, ipRange, ip, ips, gpc, ip1, ip2,
                   shared, first, round>>
    /\ ProbeUnchanged /\ EngineUnchanged

IpNext ==
    \/ ParseCall \/ ParsedToEnum
    \/ EnumCall \/ EnumIter \/ EnumReturn \/ CallerWrites \/ EnumAgain
    \/ NextIPCall \/ CompareIPsCall

\* ranges handed to GetIPsInRange directly: one address, three addresses, a
\* range across a byte carry, a range that ends at the highest address, an
\* IPv6 range
MkRange(a, b) == [nil |-> FALSE, Start |-> a, End |-> b]
DirectRanges ==
    {MkRange(<<192, 168, 1, 1>>, <<192, 168, 1, 1>>),
     MkRange(<<192, 168, 1, 1>>, <<192, 168, 1, 3>>),
     MkRange(<<192, 168, 1, 254>>, <<192, 168, 2, 1>>),
     MkRange(<<255, 255, 255, 253>>, <<255, 255, 255, 255>>),
     MkRange(<<32, 1, 13, 184>> \o Zeros(11) \o <<1>>,
             <<32, 1, 13, 184>> \o Zeros(11) \o <<3>>)}

\* the arguments of a helper call: both families, and nil
HelperAddrs == V4Addrs \cup V6Addrs \cup {<<192, 168, 1, 1>>, NilIP}

\* a text is parsed and its range enumerated, or a range is enumerated, or
\* NextIP / CompareIPs is called on its own
IpInit ==
    /\ \/ /\ ipOrSubnet \in Texts /\ ppc = "call" /\ ipRange = NilRange /\ gpc = "idle"
          /\ ip1 = NilIP /\ ip2 = NilIP /\ hpc = "idle"
       \/ /\ ipOrSubnet = NoText /\ ppc = "idle" /\ ipRange \in DirectRanges /\ gpc = "call"
          /\ ip1 = NilIP /\ ip2 = NilIP /\ hpc = "idle"
       \/ /\ ipOrSubnet = NoText /\ ppc = "idle" /\ ipRange = NilRange /\ gpc = "idle"
          /\ ip1 \in HelperAddrs /\ ip2 \in HelperAddrs /\ hpc = "call"
    /\ parsed = NoParse /\ ip = NilIP /\ ips = <<>>
    /\ hbuf = NilIP /\ hres = NoResult
    /\ shared = {} /\ first = <<>> /\ round = 1
    /\ ChunkIdle /\ ScanIdle /\ RunIdle /\ MetricsZero /\ HistEmpty /\ slow = 0
    /\ ProbeIdle /\ PkgIdle

IpSpec == IpInit /\ [][IpNext]_vars

\* ------------------------------------------------------------------ the probe
\* fetchFromDomainWithDialer (domain targets) and fetchFromIPWithDialer (IP
\* targets).  The peer and the clock are the environment: whether the dial
\* fails, whether the connection can report its TLS state, how many
\* certificates the peer presents, whether the reverse lookup fails, what
\* x509 verification reports, and the current time against the leaf's
\* validity window.

\* longest certificate chain a peer presents
MaxCerts == 2
\* latest instant of the clock and of a validity window
MaxTime == 2

\* what cert.Verify(opts) reports: nil, a CertificateInvalidError with one of
\* its reasons, a HostnameError, an UnknownAuthorityError, any other error
VerifyOutcomes ==
    {"ok", "Expired", "NotAuthorizedToSign", "IncompatibleUsage",
     "CANotAuthorizedForThisName", "TooManyIntermediates", "OtherInvalid",
     "HostnameError", "UnknownAuthorityError", "OtherError"}

\* the error a probe returns
FetchNil == [nil |-> TRUE, kind |-> "nil"]
FetchErr(kind) == [nil |-> FALSE, kind |-> kind]

\* the target of the probe (the domain, or ip.String()) and the text of a
\* domain target; names are sequences of characters
ProbeTarget == "a"
DomainName == <<"d">>

\* errors a dialer returns: a refused TCP connect, a failed TLS handshake
DialErrors == {FetchErr("refused"), FetchErr("handshake")}

\* leaf certificates: Subject.CommonName and DNSNames
Certs ==
    {[CommonName |-> <<"h">>, DNSNames |-> <<>>],
     [CommonName |-> <<>>, DNSNames |-> << <<"h">> >>],
     [CommonName |-> <<>>, DNSNames |-> <<>>]}

\* what net.LookupAddr does within five seconds: nothing (timeout), an
\* error, or a list of names
Lookups ==
    {[timeout |-> TRUE, err |-> FALSE, names |-> <<>>],
     [timeout |-> FALSE, err |-> TRUE, names |-> <<>>],
     [timeout |-> FALSE, err |-> FALSE, names |-> <<>>],
     [timeout |-> FALSE, err |-> FALSE, names |-> << <<"h", ".">> >>],
     [timeout |-> FALSE, err |-> FALSE, names |-> << <<".">> >>]}

\* strings.TrimSuffix(s, suffix)
TrimSuffix(s, suffix) ==
    IF Len(s) >= Len(suffix) /\ SubSeq(s, Len(s) - Len(suffix) + 1, Len(s)) = suffix
    THEN SubSeq(s, 1, Len(s) - Len(suffix))
    ELSE s

\* reverseDNSLookup(ip): the first name without its trailing dot, or an error
reverseDNSLookup(p) ==
    IF p.lookup.timeout \/ p.lookup.err \/ Len(p.lookup.names) = 0
    THEN [err |-> TRUE, hostname |-> <<>>]
    ELSE [err |-> FALSE, hostname |-> TrimSuffix(p.lookup.names[1], <<".">>)]

\* a text with its upper-case letters folded to lower case
ToLower(s) == [i \in DOMAIN s |-> IF s[i] = "A" THEN "a" ELSE IF s[i] = "X" THEN "x" ELSE s[i]]

\* a check that compares names without regard to case
isHostnameInCertFold(cert, hostname) ==
    \/ ToLower(cert.CommonName) = ToLower(hostname)
    \/ \E i \in DOMAIN cert.DNSNames : ToLower(cert.DNSNames[i]) = ToLower(hostname)

\* isHostnameInCert(cert, hostname)
isHostnameInCert(cert, hostname) ==
    \/ cert.CommonName = hostname
    \/ \E i \in DOMAIN cert.DNSNames : cert.DNSNames[i] = hostname

\* extractSANs(cert)
extractSANs(cert) == cert.DNSNames

\* the reason appended for a failed verification (the switch on the error type)
VerifyReason(kind, named, v) ==
    IF v = "Expired" THEN "Certificate has expired or is not yet valid"
    ELSE IF v = "NotAuthorizedToSign"
         THEN "Certificate is not authorized to sign other certificates"
    ELSE IF v = "IncompatibleUsage"
         THEN "Certificate usage is incompatible with the intended usage"
    ELSE IF v = "CANotAuthorizedForThisName" THEN "CA is not authorized for this name"
    ELSE IF v = "TooManyIntermediates" THEN "Too many intermediate certificates"
    ELSE IF v = "OtherInvalid" THEN "Certificate is invalid (reason code)"
    ELSE IF v = "HostnameError" /\ kind = "domain"
         THEN "Certificate is not valid for domain"
    ELSE IF v = "HostnameError" /\ named THEN "Certificate is not valid for hostname"
    ELSE IF v = "UnknownAuthorityError"
         THEN "Certificate signed by unknown authority (possibly self-signed)"
    ELSE "Certificate validation error"

\* a verification failure that marks the record invalid without a reason
CheckChainSilent(c, kind, p) ==
    IF p.verify = "ok" THEN c ELSE [c EXCEPT !.Valid = FALSE]

\* _, err = cert.Verify(opts); if err != nil { cd.Valid = false; append the reason }
CheckChain(c, kind, p) ==
    IF p.verify = "ok" THEN c
    ELSE [c EXCEPT !.Valid = FALSE,
                   !.ValidationErrs =
                       Append(@, VerifyReason(kind, ~reverseDNSLookup(p).err, p.verify))]

\* now.Before(cert.NotBefore) / now.After(cert.NotAfter)
NotYetValid(p) == p.now < p.notBefore
Expired(p) == p.now > p.notAfter

\* a validity-window check that is skipped once verification has failed
CheckWindowOnlyIfValid(c, p) ==
    IF ~c.Valid THEN c
    ELSE LET c1 == IF NotYetValid(p)
                   THEN [c EXCEPT !.Valid = FALSE,
                                  !.ValidationErrs = Append(@, "Certificate is not yet valid")]
                   ELSE c
         IN IF Expired(p)
            THEN [c1 EXCEPT !.Valid = FALSE,
                            !.ValidationErrs = Append(@, "Certificate has expired")]
            ELSE c1

\* now := time.Now(); the two ifs on the validity window
CheckWindow(c, p) ==
    LET c1 == IF NotYetValid(p)
              THEN [c EXCEPT !.Valid = FALSE,
                             !.ValidationErrs = Append(@, "Certificate is not yet valid")]
              ELSE c
    IN IF Expired(p)
       THEN [c1 EXCEPT !.Valid = FALSE,
                       !.ValidationErrs = Append(@, "Certificate has expired")]
       ELSE c1

\* a probe that reports an invalid certificate as its own failure
ProbeResultErrIfInvalid(c) == IF c.Valid THEN FetchNil ELSE FetchErr("invalid")

\* the probe's last statement: return nil
ProbeResult(c) == FetchNil

IpUnchanged == UNCHANGED ipVars

\* a probe that wraps the dialer's error in one of its own
DialReturnWrapped(p) == FetchErr("dial")

\* if err != nil { return err }: the dialer's error itself
DialReturn(p) == p.err

\* conn, err := dialer.Dial(...); if err != nil { return err }
ProbeDial ==
    /\ fpc = "dial"
    /\ IF peer.dialErr
       THEN fret' = DialReturn(peer) /\ fpc' = "returned"
       ELSE fret' = fret /\ fpc' = "state"
    /\ UNCHANGED <<probeKind, peer, cd, opts>>
    /\ IpUnchanged /\ EngineUnchanged

\* a probe that goes on with an empty chain
EmptyChainIgnored(p) == FALSE

\* len(certs) == 0
EmptyChain(p) == p.certs = 0

\* the domain probe stores the chain before it checks that it is not empty
StoreChain(c, kind, p) == IF kind = "domain" THEN [c EXCEPT !.CertChain = p.certs] ELSE c

\* the record's fields are set from the leaf: Domain, Serial, NotBefore,
\* NotAfter, Issuer, CRL, OCSPServer, CertChain, Valid = true,
\* ValidationErrs = []string{}; the IP probe also sets IP
FillRecord(c, kind, p) ==
    [c EXCEPT !.Domain = ProbeTarget, !.Serial = "set", !.CertChain = p.certs,
              !.Valid = TRUE, !.ValidationErrs = <<>>,
              !.IP = IF kind = "ip" THEN ProbeTarget ELSE @]

\* the type assertion, PeerCertificates, the empty-chain check; then the
\* record's fields are set
ProbeState ==
    /\ fpc = "state"
    /\ IF ~peer.getter
       THEN fret' = FetchErr("notGetter") /\ fpc' = "returned" /\ cd' = cd
       ELSE IF EmptyChain(peer)
       THEN /\ fret' = FetchErr("noCerts") /\ fpc' = "returned"
            /\ cd' = StoreChain(cd, probeKind, peer)
       ELSE /\ cd' = FillRecord(cd, probeKind, peer)
            /\ fret' = fret /\ fpc' = "verify"
    /\ UNCHANGED <<probeKind, peer, opts>>
    /\ IpUnchanged /\ EngineUnchanged

\* an IP probe that fills Hostname and HostnameInCert whatever the lookup did
WithHostnameAlways(c, kind, p) ==
    IF kind = "ip"
    THEN [c EXCEPT !.Hostname = reverseDNSLookup(p).hostname,
                   !.HostnameInCert =
                       isHostnameInCert(p.cert, reverseDNSLookup(p).hostname)]
    ELSE c

\* the IP probe's reverse lookup: when it succeeds, Hostname and
\* HostnameInCert are set
WithHostname(c, kind, p) ==
    IF kind = "ip" /\ ~reverseDNSLookup(p).err
    THEN [c EXCEPT !.Hostname = reverseDNSLookup(p).hostname,
                   !.HostnameInCert =
                       isHostnameInCert(p.cert, reverseDNSLookup(p).hostname)]
    ELSE c

\* opts := x509.VerifyOptions{DNSName: ..., Intermediates, Roots}: the domain
\* probe names the domain, the IP probe the hostname when the lookup gave
\* one and nothing otherwise
VerifyOptions(kind, p) ==
    [built |-> TRUE,
     DNSName |-> IF kind = "domain" THEN DomainName
                 ELSE IF ~reverseDNSLookup(p).err THEN reverseDNSLookup(p).hostname
                 ELSE <<>>]

\* (IP targets: the reverse lookup chooses the verification name;) the pools
\* are built and the chain is verified
ProbeVerify ==
    /\ fpc = "verify"
    /\ opts' = VerifyOptions(probeKind, peer)
    /\ cd' = CheckChain(WithHostname(cd, probeKind, peer), probeKind, peer)
    /\ fpc' = "window"
    /\ UNCHANGED <<probeKind, peer, fret>>
    /\ IpUnchanged /\ EngineUnchanged

\* the IP probe's last assignment: cd.SANs = extractSANs(cert)
WithSANs(c, kind, p) == IF kind = "ip" THEN [c EXCEPT !.SANs = extractSANs(p.cert)] ELSE c

\* the validity window is checked against time.Now(); the probe returns
ProbeWindow ==
    /\ fpc = "window"
    /\ cd' = WithSANs(CheckWindow(cd, peer), probeKind, peer)
    /\ fret' = ProbeResult(CheckWindow(cd, peer))
    /\ fpc' = "returned"
    /\ UNCHANGED <<probeKind, peer, opts>>
    /\ IpUnchanged /\ EngineUnchanged

\* the task that called the probe: if err != nil it reports a failure and
\* counts it, otherwise it deposits the record and counts a success; its
\* deferred timer observes one duration under the target's label
ProbeDeposit ==
    /\ fpc = "returned"
    /\ fpc' = IF DepositsRecord(fret) THEN "record" ELSE "failure"
    /\ totalScrapes' = IF DepositsRecord(fret)
                       THEN Inc(totalScrapes, "success")
                       ELSE Inc(totalScrapes, "failed")
    /\ scrapeDuration' = Observe(scrapeDuration, ProbeTarget)
    /\ UNCHANGED <<probeKind, peer, fret, cd, opts>>
    /\ IpUnchanged
    /\ UNCHANGED <<chunkVars, scanVars, runVars, taskVars, slow, histVars, pkgVars>>

ProbeNext == ProbeDial \/ ProbeState \/ ProbeVerify \/ ProbeWindow \/ ProbeDeposit

\* one probe of a domain or of an IP target against any peer and clock
\* a dialer that fails, with or without a connection object beside the error
FailingPeers ==
    {[NoPeer EXCEPT !.dialErr = TRUE, !.err = e, !.conn = c] :
        e \in DialErrors, c \in BOOLEAN}

\* a dialer that connects: to a connection that cannot report a TLS state,
\* to a peer that presents no certificate, or to a peer with a chain
ConnectedPeers ==
    {[NoPeer EXCEPT !.conn = TRUE, !.getter = FALSE],
     [NoPeer EXCEPT !.conn = TRUE]}
    \cup [dialErr : {FALSE}, err : {FetchNil}, conn : {TRUE}, getter : {TRUE},
          certs : 1 .. MaxCerts, cert : Certs, lookup : Lookups,
          verify : VerifyOutcomes,
          now : 0 .. MaxTime, notBefore : 0 .. MaxTime, notAfter : 0 .. MaxTime]

ProbeInit ==
    /\ probeKind \in {"domain", "ip"}
    /\ peer \in FailingPeers \cup ConnectedPeers
    \* a domain probe makes no reverse lookup and never reads the leaf's names
    /\ probeKind = "domain" =>
           peer.lookup = [timeout |-> FALSE, err |-> FALSE, names |-> <<>>]
           /\ peer.cert = [CommonName |-> <<>>, DNSNames |-> <<>>]
    /\ fpc = "dial" /\ fret = FetchNil /\ cd = EmptyRecord /\ opts = NoOpts
    /\ ChunkIdle /\ ScanIdle /\ RunIdle /\ MetricsZero /\ HistEmpty /\ slow = 0
    /\ IpIdle /\ PkgIdle

ProbeSpec == ProbeInit /\ [][ProbeNext]_vars

ScannerUnchanged ==
    UNCHANGED <<chunkVars, scanVars, runVars, taskVars, metricVars, slow, histVars,
                ipVars, probeVars>>

\* ------------------------------------------------------------------ reverseDNSLookup
\* the longest list of names the resolver answers with
MaxNames == 2

\* the names a PTR answer carries: rooted, the root alone, unrooted, and
\* with two trailing dots
PtrNames == {<<"h", ".">>, <<".">>, <<"h">>, <<"h", ".", ".">>}

\* what net.LookupAddr(ip.String()) returns: an error, or a list of names
Answers ==
    {[err |-> TRUE, names |-> <<>>]}
        \cup {[err |-> FALSE, names |-> n] : n \in BSeq(PtrNames, MaxNames)}

\* an unbuffered result channel: a send proceeds only while the caller
\* waits in the select
ResultChanUnbuffered == lpc = "select" /\ Len(resultChan) < 1

\* resultChan := make(chan struct{...}, 1): a send proceeds while the
\* buffer has room
ResultChanHasRoom == Len(resultChan) < 1

\* a text without any of its trailing dots: strings.TrimRight(s, ".")
RECURSIVE TrimRightDots(_)
TrimRightDots(s) ==
    IF s # <<>> /\ s[Len(s)] = "." THEN TrimRightDots(SubSeq(s, 1, Len(s) - 1)) ELSE s

\* a receive case that strips every trailing dot
FromResultTrimRight(result) ==
    IF result.err THEN [returned |-> TRUE, hostname |-> <<>>, err |-> "lookup"]
    ELSE IF Len(result.names) = 0
    THEN [returned |-> TRUE, hostname |-> <<>>, err |-> "nonames"]
    ELSE [returned |-> TRUE, hostname |-> TrimRightDots(result.names[1]), err |-> "nil"]

\* case result := <-resultChan: the lookup error, "no hostname found", or
\* the first name without its trailing dot
FromResult(result) ==
    IF result.err THEN [returned |-> TRUE, hostname |-> <<>>, err |-> "lookup"]
    ELSE IF Len(result.names) = 0
    THEN [returned |-> TRUE, hostname |-> <<>>, err |-> "nonames"]
    ELSE [returned |-> TRUE, hostname |-> TrimSuffix(result.names[1], <<".">>), err |-> "nil"]

\* case <-time.After(5 * time.Second): the timeout error
TimedOut == [returned |-> TRUE, hostname |-> <<>>, err |-> "timeout"]

LookupOthersUnchanged == UNCHANGED <<helperVars, ocspVars, mainVars, portVars>>

\* reverseDNSLookup, entry: the channel is made and the goroutine started,
\* the caller reaches the select and the timer is armed
LookupCall ==
    /\ lpc = "call"
    /\ resultChan' = <<>>
    /\ gopc' = "lookup"
    /\ lpc' = "select"
    /\ UNCHANGED <<resolver, timerFired, lret, lvia>>
    /\ LookupOthersUnchanged /\ ScannerUnchanged

\* the goroutine: names, err := net.LookupAddr(ip.String()) returns
LookupAddr ==
    /\ gopc = "lookup"
    /\ gopc' = "send"
    /\ UNCHANGED <<resolver, resultChan, lpc, timerFired, lret, lvia>>
    /\ LookupOthersUnchanged /\ ScannerUnchanged

\* the goroutine: resultChan <- struct{...}{names, err}, its last statement
LookupSend ==
    /\ gopc = "send"
    /\ ResultChanHasRoom
    /\ resultChan' = Append(resultChan, resolver)
    /\ gopc' = "done"
    /\ UNCHANGED <<resolver, lpc, timerFired, lret, lvia>>
    /\ LookupOthersUnchanged /\ ScannerUnchanged

\* five seconds pass while the caller waits in the select
TimerFires ==
    /\ lpc = "select"
    /\ ~timerFired
    /\ timerFired' = TRUE
    /\ UNCHANGED <<resolver, resultChan, lpc, gopc, lret, lvia>>
    /\ LookupOthersUnchanged /\ ScannerUnchanged

\* select, case result := <-resultChan
SelectResult ==
    /\ lpc = "select"
    /\ resultChan # <<>>
    /\ lret' = FromResult(Head(resultChan))
    /\ resultChan' = Tail(resultChan)
    /\ lvia' = "result"
    /\ lpc' = "returned"
    /\ UNCHANGED <<resolver, gopc, timerFired>>
    /\ LookupOthersUnchanged /\ ScannerUnchanged

\* select, case <-time.After(5 * time.Second)
SelectTimeout ==
    /\ lpc = "select"
    /\ timerFired
    /\ lret' = TimedOut
    /\ lvia' = "timer"
    /\ lpc' = "returned"
    /\ UNCHANGED <<resolver, resultChan, gopc, timerFired>>
    /\ LookupOthersUnchanged /\ ScannerUnchanged

LookupNext ==
    \/ LookupCall \/ LookupAddr \/ LookupSend
    \/ TimerFires \/ SelectResult \/ SelectTimeout

\* a call of reverseDNSLookup against every answer of the resolver
LookupInit ==
    /\ resolver \in Answers
    /\ resultChan = <<>> /\ lpc = "call" /\ gopc = "none"
    /\ timerFired = FALSE /\ lret = NoLookupRet /\ lvia = "none"
    /\ HelperIdle /\ OcspIdle /\ MainIdle /\ PortIdle
    /\ ChunkIdle /\ ScanIdle /\ RunIdle /\ MetricsZero /\ HistEmpty /\ slow = 0
    /\ IpIdle /\ ProbeIdle

LookupSpec == LookupInit /\ [][LookupNext]_vars

\* the same call under a scheduler that runs a goroutine which can take a step
FairLookupSpec == LookupSpec /\ WF_vars(LookupSend)

\* ------------------------------------------------------------------ ParsePort
\* the longest port text
MaxPortLen == 5

\* the characters of a port text: digits, the two signs, a letter
Digits == {"0", "3", "5", "6"}
PortChars == Digits \cup {"+", "-", "x"}
PortTexts == BSeq(PortChars, MaxPortLen)

\* ch - '0'
DigitVal(ch) ==
    CASE ch = "0" -> 0 [] ch = "3" -> 3 [] ch = "5" -> 5 [] ch = "6" -> 6

\* strconv.Atoi, the loop over the characters after the sign:
\* ch -= '0'; if ch > 9 { syntax error }; n = n*10 + int(ch)
RECURSIVE AtoiLoop(_, _, _)
AtoiLoop(s, i, n) ==
    IF i > Len(s) THEN [err |-> FALSE, n |-> n]
    ELSE IF s[i] \notin Digits THEN [err |-> TRUE, n |-> 0]
    ELSE AtoiLoop(s, i + 1, n * 10 + DigitVal(s[i]))

\* strconv.Atoi(s) for a text short enough for the fast path (under 19
\* characters): a sign is skipped, a text without digits is a syntax
\* error, a minus sign negates
Atoi(s) ==
    LET signed == s # <<>> /\ s[1] \in {"+", "-"}
        body == IF signed THEN Tail(s) ELSE s
        r == AtoiLoop(body, 1, 0)
    IN IF body = <<>> \/ r.err THEN [err |-> TRUE, n |-> 0]
       ELSE IF s[1] = "-" THEN [err |-> FALSE, n |-> 0 - r.n]
       ELSE r

\* a range check that lets port 0 through: portNum < 0 || portNum > 65535
ParsePortFromZero(p) ==
    IF p = <<>> THEN [val |-> 443, err |-> "nil"]
    ELSE IF Atoi(p).err THEN [val |-> 0, err |-> "invalid"]
    ELSE IF Atoi(p).n < 0 \/ Atoi(p).n > 65535 THEN [val |-> 0, err |-> "range"]
    ELSE [val |-> Atoi(p).n, err |-> "nil"]

\* ParsePort(port): 443 for the empty text, "invalid port number" when Atoi
\* fails, "port number out of range" outside 1..65535
ParsePort(p) ==
    IF p = <<>> THEN [val |-> 443, err |-> "nil"]
    ELSE IF Atoi(p).err THEN [val |-> 0, err |-> "invalid"]
    ELSE IF Atoi(p).n < 1 \/ Atoi(p).n > 65535 THEN [val |-> 0, err |-> "range"]
    ELSE [val |-> Atoi(p).n, err |-> "nil"]

\* portNum, err := helper.ParsePort(port)
ParsePortCall ==
    /\ ~portRet.returned
    /\ portRet' = [returned |-> TRUE, val |-> ParsePort(port).val,
                   err |-> ParsePort(port).err]
    /\ UNCHANGED <<port, helperVars, ocspVars, mainVars, lookupVars>>
    /\ ScannerUnchanged

\* a call of ParsePort on every port text
PortInit ==
    /\ port \in PortTexts /\ portRet = NoPortRet
    /\ HelperIdle /\ OcspIdle /\ MainIdle /\ LookupIdle
    /\ ChunkIdle /\ ScanIdle /\ RunIdle /\ MetricsZero /\ HistEmpty /\ slow = 0
    /\ IpIdle /\ ProbeIdle

PortSpec == PortInit /\ [][ParsePortCall]_vars

\* ------------------------------------------------------------------ pure helpers
\* IsConnectionError (pkg/scraper/utils.go) and isHostnameInCert.  Texts are
\* sequences of characters; an error value is nil or carries its Error() text.

\* most DNS names in a certificate handed to isHostnameInCert
MaxSANs == 2

\* an error with message m
ErrorWith(m) == [nil |-> FALSE, msg |-> m]

\* the message of each failure of a probe: the net package's text for a
\* failed TCP dial (refused, timed out, unresolvable name), a TLS alert, and
\* the probe's own two messages
ErrorText(kind, e) ==
    IF e.kind = "refused"
    THEN <<"d", "i", "a", "l", " ", "t", "c", "p", " ", "1", "9", "2", ".", "0", ".", "2", ".", "1", ":", "4", "4", "3", ":", " ", "c", "o", "n", "n", "e", "c", "t", ":", " ", "c", "o", "n", "n", "e", "c", "t", "i", "o", "n", " ", "r", "e", "f", "u", "s", "e", "d">>
    ELSE IF e.kind = "timeout"
    THEN <<"d", "i", "a", "l", " ", "t", "c", "p", " ", "1", "9", "2", ".", "0", ".", "2", ".", "1", ":", "4", "4", "3", ":", " ", "i", "/", "o", " ", "t", "i", "m", "e", "o", "u", "t">>
    ELSE IF e.kind = "nohost"
    THEN <<"d", "i", "a", "l", " ", "t", "c", "p", ":", " ", "l", "o", "o", "k", "u", "p", " ", "a", ":", " ", "n", "o", " ", "s", "u", "c", "h", " ", "h", "o", "s", "t">>
    ELSE IF e.kind = "handshake"
    THEN <<"r", "e", "m", "o", "t", "e", " ", "e", "r", "r", "o", "r", ":", " ", "t", "l", "s", ":", " ", "h", "a", "n", "d", "s", "h", "a", "k", "e", " ", "f", "a", "i", "l", "u", "r", "e">>
    ELSE IF e.kind = "notGetter"
    THEN <<"e", "x", "p", "e", "c", "t", "e", "d", " ", "a", " ", "C", "o", "n", "n", "e", "c", "t", "i", "o", "n", "S", "t", "a", "t", "e", "G", "e", "t", "t", "e", "r", ",", " ", "g", "o", "t", " ", "*", "n", "e", "t", ".", "T", "C", "P", "C", "o", "n", "n">>
    ELSE IF e.kind = "noCerts" /\ kind = "domain"
    THEN <<"n", "o", " ", "c", "e", "r", "t", "i", "f", "i", "c", "a", "t", "e", "s", " ", "f", "o", "u", "n", "d", " ", "f", "o", "r", " ", "d", "o", "m", "a", "i", "n", " ", "a">>
    ELSE IF e.kind = "noCerts"
    THEN <<"n", "o", " ", "c", "e", "r", "t", "i", "f", "i", "c", "a", "t", "e", "s", " ", "f", "o", "u", "n", "d", " ", "f", "o", "r", " ", "I", "P", " ", "a">>
    ELSE <<>>

\* failures of the network dial itself, and the probe's other failures
NetDialFailures == {FetchErr("refused"), FetchErr("timeout"), FetchErr("nohost")}
OtherFailures == {FetchErr("handshake"), FetchErr("notGetter"), FetchErr("noCerts")}

\* the messages of the probe's failures
ProbeMessages ==
    {ErrorText(kind, e) : kind \in {"domain", "ip"}, e \in NetDialFailures \cup OtherFailures}

\* other messages: the two patterns and near misses of them, alone or
\* inside a longer text
Cores ==
    { <<"d", "i", "a", "l", " ", "t", "c", "p">>, <<"d", "i", "a", "l", " ", " ", "t", "c", "p">>, <<"d", "i", "a", "l", "t", "c", "p">>, <<"D", "i", "a", "l", " ", "t", "c", "p">>, <<"t", "c", "p", " ", "d", "i", "a", "l">>,
     <<"c", "o", "n", "n", "e", "c", "t", ":">>, <<"c", "o", "n", "n", "e", "c", "t">>, <<"c", "o", "n", "n", "e", "c", "t", " ", ":">>, <<"C", "O", "N", "N", "E", "C", "T", ":">>,
     <<"s", "o", "m", "e", " ", "o", "t", "h", "e", "r", " ", "e", "r", "r", "o", "r">>, <<>>}
Prefixes == {<<>>, <<"r", "e">>, <<"x", ":", " ">> }
Suffixes == {<<>>, <<"x">>, <<":", " ", "c", "o", "n", "n", "e", "c", "t", "i", "o", "n", " ", "r", "e", "f", "u", "s", "e", "d">> }
OtherMessages == {p \o c \o x : p \in Prefixes, c \in Cores, x \in Suffixes}

\* the errors handed to IsConnectionError
Errors == {NilError} \cup {ErrorWith(m) : m \in ProbeMessages \cup OtherMessages}

\* strings.Contains(s, substr)
Contains(s, substr) ==
    \E i \in 0 .. (Len(s) - Len(substr)) : SubSeq(s, i + 1, i + Len(substr)) = substr

\* a classifier that only looks for "dial tcp"
IsConnectionErrorDialOnly(err) ==
    IF err.nil THEN FALSE ELSE Contains(err.msg, <<"d", "i", "a", "l", " ", "t", "c", "p">>)

\* IsConnectionError(err)
IsConnectionError(err) ==
    IF err.nil THEN FALSE
    ELSE Contains(err.msg, <<"d", "i", "a", "l", " ", "t", "c", "p">>) \/ Contains(err.msg, <<"c", "o", "n", "n", "e", "c", "t", ":">>)

\* host names: differing in case, a wildcard, a parent domain, the empty name
HostTexts == { <<"a", ".", "x">>, <<"A", ".", "x">>, <<"*", ".", "x">>, <<"x">>, <<>>}

\* the certificates handed to isHostnameInCert
HelperCerts == [CommonName : HostTexts, DNSNames : BSeq(HostTexts, MaxSANs)]

\* a call of IsConnectionError(err), as ScanIPAddresses makes for each failure
IsConnectionErrorCall ==
    /\ fn = "IsConnectionError" /\ ~ret.done
    /\ ret' = [done |-> TRUE, val |-> IsConnectionError(arg.err)]
    /\ UNCHANGED <<fn, arg, ocspVars, mainVars, lookupVars, portVars>>
    /\ ScannerUnchanged

\* a call of isHostnameInCert(cert, hostname)
isHostnameInCertCall ==
    /\ fn = "isHostnameInCert" /\ ~ret.done
    /\ ret' = [done |-> TRUE, val |-> isHostnameInCert(arg.cert, arg.hostname)]
    /\ UNCHANGED <<fn, arg, ocspVars, mainVars, lookupVars, portVars>>
    /\ ScannerUnchanged

HelperNext == IsConnectionErrorCall \/ isHostnameInCertCall

\* one call of a helper on any of its arguments
HelperInit ==
    /\ \/ /\ fn = "IsConnectionError"
          /\ arg \in [err : Errors, cert : {NoCert}, hostname : {<<>>}]
       \/ /\ fn = "isHostnameInCert"
          /\ arg \in [err : {NilError}, cert : HelperCerts, hostname : HostTexts]
    /\ ret = NoRet
    /\ OcspIdle /\ MainIdle /\ LookupIdle /\ PortIdle
    /\ ChunkIdle /\ ScanIdle /\ RunIdle /\ MetricsZero /\ HistEmpty /\ slow = 0
    /\ IpIdle /\ ProbeIdle

HelperSpec == HelperInit /\ [][HelperNext]_vars

\* ------------------------------------------------------------------ OCSP
\* OCSPChecker.GetOCSPResp and CheckOCSPStatus.  The environment is the
\* leaf's list of responder URLs and what each step does: building the
\* request, the POST, reading the body, parsing the response against the
\* issuer, parsing it again against the certificate it embeds, and the
\* status it carries.  An error is named by the step it comes from.

\* most responder URLs in a certificate
MaxServers == 2

URLs == {"u1", "u2"}
StepOutcomes == {"ok", "err"}
Statuses == {"Good", "Revoked", "Unknown"}

\* a responder address other than the first
ResponderURLLast(c) == c.servers[Len(c.servers)]

\* o.Certificate.OCSPServer[0]
ResponderURL(c) == c.servers[1]

\* return nil, err / return resp, nil
GotErr(r, e) == [r EXCEPT !.got = [returned |-> TRUE, resp |-> "nil", err |-> e]]
GotResp(r, c) == [r EXCEPT !.got = [returned |-> TRUE, resp |-> c.status, err |-> "nil"]]

OcspOthersUnchanged == UNCHANGED <<helperVars, mainVars, lookupVars, portVars>>

\* if len(o.Certificate.OCSPServer) == 0 { return nil, errors.New(...) }
OcspServers ==
    /\ opc = "servers"
    /\ IF Len(checker.servers) = 0
       THEN oret' = GotErr(oret, "no OCSP server specified in cert") /\ opc' = "got"
       ELSE oret' = oret /\ opc' = "create"
    /\ UNCHANGED <<checker, method, requests>>
    /\ OcspOthersUnchanged /\ ScannerUnchanged

\* ocspReq, err := ocsp.CreateRequest(o.Certificate, o.Issuer, nil)
OcspCreate ==
    /\ opc = "create"
    /\ IF checker.create = "err"
       THEN oret' = GotErr(oret, "create") /\ opc' = "got" /\ requests' = requests
       ELSE /\ requests' = [requests EXCEPT !.built = @ + 1]
            /\ oret' = oret /\ opc' = "post"
    /\ UNCHANGED <<checker, method>>
    /\ OcspOthersUnchanged /\ ScannerUnchanged

\* httpResp, err := http.Post(o.Certificate.OCSPServer[0], ...)
OcspPost ==
    /\ opc = "post"
    /\ requests' = [requests EXCEPT !.posted = Append(@, ResponderURL(checker))]
    /\ IF checker.post = "err"
       THEN oret' = GotErr(oret, "post") /\ opc' = "got"
       ELSE oret' = oret /\ opc' = "read"
    /\ UNCHANGED <<checker, method>>
    /\ OcspOthersUnchanged /\ ScannerUnchanged

\* ocspResp, err := io.ReadAll(httpResp.Body)
OcspRead ==
    /\ opc = "read"
    /\ IF checker.read = "err"
       THEN oret' = GotErr(oret, "read") /\ opc' = "got"
       ELSE oret' = oret /\ opc' = "parse"
    /\ UNCHANGED <<checker, method, requests>>
    /\ OcspOthersUnchanged /\ ScannerUnchanged

\* resp, err := ocsp.ParseResponse(ocspResp, o.Issuer); without an embedded
\* certificate: return resp, nil
OcspParse ==
    /\ opc = "parse"
    /\ IF checker.parse = "err"
       THEN oret' = GotErr(oret, "parse") /\ opc' = "got"
       ELSE IF checker.hasCert
       THEN oret' = oret /\ opc' = "reparse"
       ELSE oret' = GotResp(oret, checker) /\ opc' = "got"
    /\ UNCHANGED <<checker, method, requests>>
    /\ OcspOthersUnchanged /\ ScannerUnchanged

\* resp, err = ocsp.ParseResponse(ocspResp, resp.Certificate); return resp, nil
OcspReparse ==
    /\ opc = "reparse"
    /\ IF checker.reparse = "err"
       THEN oret' = GotErr(oret, "reparse")
       ELSE oret' = GotResp(oret, checker)
    /\ opc' = "got"
    /\ UNCHANGED <<checker, method, requests>>
    /\ OcspOthersUnchanged /\ ScannerUnchanged

\* CheckOCSPStatus after GetOCSPResp: the error unchanged, or "invalid OCSP
\* status" unless the status is ocsp.Good
StatusError(got) ==
    IF got.err # "nil" THEN got.err
    ELSE IF got.resp # "Good" THEN "invalid OCSP status"
    ELSE "nil"

\* CheckOCSPStatus returns
OcspCheck ==
    /\ opc = "got" /\ method = "CheckOCSPStatus"
    /\ oret' = [oret EXCEPT !.check = [returned |-> TRUE, err |-> StatusError(oret.got)]]
    /\ opc' = "checked"
    /\ UNCHANGED <<checker, method, requests>>
    /\ OcspOthersUnchanged /\ ScannerUnchanged

OcspNext ==
    OcspServers \/ OcspCreate \/ OcspPost \/ OcspRead \/ OcspParse \/ OcspReparse
    \/ OcspCheck

\* one call of either method on any certificate and responder
OcspInit ==
    /\ checker \in [servers : BSeq(URLs, MaxServers), create : StepOutcomes,
                    post : StepOutcomes, read : StepOutcomes, parse : StepOutcomes,
                    hasCert : BOOLEAN, reparse : StepOutcomes, status : Statuses]
    /\ method \in {"GetOCSPResp", "CheckOCSPStatus"}
    /\ opc = "servers" /\ requests = NoRequests /\ oret = NoOcspResult
    /\ HelperIdle /\ MainIdle /\ LookupIdle /\ PortIdle
    /\ ChunkIdle /\ ScanIdle /\ RunIdle /\ MetricsZero /\ HistEmpty /\ slow = 0
    /\ IpIdle /\ ProbeIdle

OcspSpec == OcspInit /\ [][OcspNext]_vars

\* ------------------------------------------------------------------ main
\* main (cmd/tls-scrape): loadConfig, validateConfig, and the choice between
\* the IP scan and the domain scan.  Only the four target options matter to
\* that choice; a value is empty, a name, or a blank (which is not empty).

OptionValues == {"", "x", " "}
Configs == [FQDN : OptionValues, FilePath : OptionValues,
            IPAddr : OptionValues, Subnet : OptionValues]

\* 1 if the option is set (s != ""), else 0
IsSet(s) == IF s # "" THEN 1 ELSE 0

\* optionCount after the four ifs
optionCount(c) == IsSet(c.FQDN) + IsSet(c.FilePath) + IsSet(c.IPAddr) + IsSet(c.Subnet)

\* a validation that only asks for at least one option
validateConfigAtLeastOne(c) ==
    IF optionCount(c) = 0
    THEN [valid |-> FALSE, msg |-> "You must specify one of: fqdn, filepath, ip, or subnet."]
    ELSE [valid |-> TRUE, msg |-> ""]

\* validateConfig(config)
validateConfig(c) ==
    IF optionCount(c) > 1
    THEN [valid |-> FALSE, msg |-> "You can only specify one of: fqdn, filepath, ip, or subnet."]
    ELSE IF optionCount(c) = 0
    THEN [valid |-> FALSE, msg |-> "You must specify one of: fqdn, filepath, ip, or subnet."]
    ELSE [valid |-> TRUE, msg |-> ""]

MainOthersUnchanged == UNCHANGED <<helperVars, ocspVars, lookupVars, portVars>>

\* valid, errMsg := validateConfig(config); if !valid { log.Fatal(errMsg) }
MainValidate ==
    /\ mpc = "validate"
    /\ IF ~validateConfig(config).valid
       THEN fatal' = validateConfig(config).msg /\ mpc' = "exited"
       ELSE fatal' = fatal /\ mpc' = "dispatch"
    /\ UNCHANGED <<config, started>>
    /\ MainOthersUnchanged /\ ScannerUnchanged

\* if config.IPAddr != "" || config.Subnet != "" { scanner.ScanIPAddresses(ipConfig); return }
MainScanIP ==
    /\ mpc = "dispatch"
    /\ config.IPAddr # "" \/ config.Subnet # ""
    /\ started' = Append(started, "ScanIPAddresses")
    /\ mpc' = "returned"
    /\ UNCHANGED <<config, fatal>>
    /\ MainOthersUnchanged /\ ScannerUnchanged

\* scanner.ScanDomains(domainConfig)
MainScanDomains ==
    /\ mpc = "dispatch"
    /\ ~(config.IPAddr # "" \/ config.Subnet # "")
    /\ started' = Append(started, "ScanDomains")
    /\ mpc' = "returned"
    /\ UNCHANGED <<config, fatal>>
    /\ MainOthersUnchanged /\ ScannerUnchanged

MainNext == MainValidate \/ MainScanIP \/ MainScanDomains

\* config := loadConfig(): any combination of the four options
MainInit ==
    /\ config \in Configs
    /\ mpc = "validate" /\ started = <<>> /\ fatal = ""
    /\ HelperIdle /\ OcspIdle /\ LookupIdle /\ PortIdle
    /\ ChunkIdle /\ ScanIdle /\ RunIdle /\ MetricsZero /\ HistEmpty /\ slow = 0
    /\ IpIdle /\ ProbeIdle

MainSpec == MainInit /\ [][MainNext]_vars

\* ------------------------------------------------------------------ claims
\* what the current run's probes did
Succeeded == {t \in Tasks : Pos(t) \in DOMAIN outcome /\ outcome[Pos(t)] = "ok"}
Failed    == {t \in Tasks : Pos(t) \in DOMAIN outcome /\ outcome[Pos(t)] = "failed"}

\* number of records of seq that name target d
CountOf(seq, d) == Cardinality({i \in DOMAIN seq : seq[i].Domain = d})

RECURSIVE SumOver(_, _)
SumOver(f, S) == IF S = {} THEN 0
                 ELSE LET x == CHOOSE y \in S : TRUE IN f[x] + SumOver(f, S \ {x})

\* C1: with a concurrency limit N >= 1, at most N tasks of a run are between
\* acquiring a semaphore slot and releasing it (executing the probe), in
\* every reachable state.
C1_AtMostNInFlight ==
    concurrency >= 1 =>
        Cardinality({t \in DOMAIN pc : pc[t] = "fetch"}) <= concurrency

\* the limit is reached while another task waits for a slot
C1_Witness ==
    /\ concurrency = 2
    /\ Len(websites) = 3
    /\ Cardinality({t \in DOMAIN pc : pc[t] = "fetch"}) = 2
    /\ \E t \in DOMAIN pc : pc[t] = "acquire"

\* C2: an orchestrator run returns only after every dispatched task has
\* finished: it has deposited its record or failure, done its metric side
\* effects and called wg.Done; a failing task does not make it return early.
C2_ReturnsAfterAllTasks ==
    runpc = "returned" =>
        /\ \A t \in Tasks : pc[t] = "finished"
        /\ \A t \in Tasks : Pos(t) \in DOMAIN outcome
        /\ results = <<>> /\ errorChan = <<>>
        /\ Len(retDetails) = Cardinality(Succeeded)
        /\ totalScrapes.success + totalScrapes.failed = Cardinality(DOMAIN outcome)
        /\ SumOver(scrapeDuration, Names) = Cardinality(DOMAIN outcome)

\* a run of three tasks returns after one of them failed
C2_Witness ==
    /\ runpc = "returned"
    /\ Len(websites) = 3
    /\ Cardinality(Failed) = 1
    /\ Cardinality(Succeeded) = 2

\* C3: when a run over pairwise distinct targets returns, every target has
\* exactly one outcome: one record for each target whose probe succeeded and
\* none for the others, and the MultiError's keys are exactly the targets
\* whose probe failed.
C3_ExactlyOneOutcome ==
    (runpc = "returned" /\ Distinct(websites)) =>
        /\ \A t \in Tasks :
              /\ t \in Succeeded \cup Failed
              /\ CountOf(retDetails, websites[t]) = (IF t \in Succeeded THEN 1 ELSE 0)
              /\ (websites[t] \in DOMAIN retErr.Errors) <=> (t \in Failed)
        /\ Len(retDetails) = Cardinality(Succeeded)
        /\ DOMAIN retErr.Errors = {websites[t] : t \in Failed}

\* three distinct targets, some succeeded and some failed
C3_Witness ==
    /\ runpc = "returned"
    /\ Len(websites) = 3 /\ Distinct(websites)
    /\ Succeeded # {} /\ Failed # {}

\* C4: a run returns a nil error if and only if no probe failed; when a
\* probe failed it returns a MultiError and, in the same call, the record of
\* every probe that succeeded.
C4_NilErrorIffNoFailure ==
    runpc = "returned" =>
        /\ retErr.nil <=> (Failed = {})
        /\ ~retErr.nil =>
              /\ DOMAIN retErr.Errors # {}
              /\ Len(retDetails) = Cardinality(Succeeded)
              /\ \A t \in Succeeded : CountOf(retDetails, websites[t]) >= 1

\* a run returns an error together with a record
C4_Witness ==
    /\ runpc = "returned"
    /\ ~retErr.nil
    /\ retDetails # <<>>

\* C5: after a multi-batch scan every target of the input list is named in
\* the returned record list or in the returned error map, for every target
\* list, concurrency and chunk size.
C5_NoSilentDrops ==
    scanpc = "done" =>
        \A i \in DOMAIN domains :
            \/ CountOf(allCertDetails, domains[i]) >= 1
            \/ domains[i] \in DOMAIN allErrors

\* C6: a failed probe never aborts a scan: when a scan in which a probe
\* failed returns, every target of every batch was probed, the record list
\* holds one record per succeeded probe and the error map names the targets
\* of the failed probes.
C6_FailureNeverAborts ==
    (scanpc = "done" /\ \E p \in DOMAIN outcome : outcome[p] = "failed") =>
        /\ attempted = 1 .. Len(domains)
        /\ DOMAIN outcome = attempted
        /\ \A n \in Names :
              CountOf(allCertDetails, n) =
                  Cardinality({p \in DOMAIN outcome : domains[p] = n /\ outcome[p] = "ok"})
        /\ DOMAIN allErrors = {domains[p] : p \in {q \in DOMAIN outcome : outcome[q] = "failed"}}

\* the first batch had a failure and a later batch a success
C6_Witness ==
    /\ scanpc = "done"
    /\ Len(chunks) >= 2
    /\ 1 \in DOMAIN outcome /\ outcome[1] = "failed"
    /\ Len(domains) \in DOMAIN outcome /\ outcome[Len(domains)] = "ok"
    /\ allCertDetails # <<>>

\* the task of list position p belongs to the run in progress
InRun(p) ==
    /\ scanpc = "inrun"
    /\ runpc \in {"dispatch", "rangeResults", "rangeErrors", "returned"}
    /\ p - SumLen(chunks, k - 1) \in Tasks

\* the task of list position p was started / has deposited its outcome
Started(p)   == InRun(p) /\ pc[p - SumLen(chunks, k - 1)] # "idle"
Deposited(p) == InRun(p) /\ pc[p - SumLen(chunks, k - 1)] \in {"wgdone", "finished"}

\* C7 as claimed: with a limit N >= 1, when the probe of one target never
\* returns, every other started task of the run still deposits its outcome.
C7_SlowNeverBlocks_AnyLimit ==
    \A p \in 1 .. MaxFairLen :
        [](((concurrency >= 1) /\ Started(p) /\ p # slow) => <>Deposited(p))

\* C7 amended: the same with a limit N >= 2.
C7_SlowNeverBlocks ==
    \A p \in 1 .. MaxFairLen :
        [](((concurrency >= 2) /\ Started(p) /\ p # slow) => <>Deposited(p))

\* the slow probe holds a slot and the other task of the run has deposited
\* after acquiring its slot later than the slow one
C7_Witness ==
    /\ concurrency = 2
    /\ Len(websites) = 2
    /\ \E t \in Tasks : Pos(t) = slow /\ pc[t] = "fetch"
    /\ \E t \in Tasks : Pos(t) # slow /\ Deposited(Pos(t))

\* C8: when every probe returns and the limit is N >= 1, every run that
\* starts returns and the multi-batch scan returns.
C8_ScanTerminates ==
    (slow = 0 /\ concurrency >= 1) =>
        /\ <>(scanpc = "done")
        /\ [](runpc = "dispatch" => <>(runpc = "returned"))

\* a run of two tasks under a limit of 1 has returned, and so has the scan
C8_Witness ==
    /\ scanpc = "done"
    /\ slow = 0
    /\ concurrency = 1
    /\ Len(domains) = 2
    /\ Len(chunks) = 1
    /\ attempted = 1 .. 2

\* C9: for a chunk size C >= 1 the batches concatenate to the list, every
\* batch is non-empty, every batch but the last has exactly C elements, the
\* last has 1..C, and an empty list gives zero batches.
C9_ChunksPartitionList ==
    (cpc = "done" /\ csize >= 1) =>
        /\ Flatten(chunks) = cslice
        /\ \A j \in DOMAIN chunks :
              /\ Len(chunks[j]) >= 1
              /\ Len(chunks[j]) <= csize
              /\ j < Len(chunks) => Len(chunks[j]) = csize
        /\ cslice = <<>> => chunks = <<>>

\* a list of five in chunks of two: two full batches and a remainder
C9_Witness ==
    /\ cpc = "done"
    /\ csize = 2
    /\ Len(cslice) = 5
    /\ Len(chunks) = 3
    /\ Len(chunks[3]) = 1

\* C10: for a chunk size <= 0 ChunkSlice returns at once, with zero batches,
\* whatever the list.
C10_NonPositiveChunkSize ==
    (csize <= 0 /\ cpc \notin {"idle", "call"}) =>
        /\ cpc = "done"
        /\ chunks = <<>>

\* a non-empty list chunked with size 0
C10_Witness ==
    /\ cpc = "done"
    /\ csize = 0
    /\ Len(cslice) = 3
    /\ chunks = <<>>

\* ---- address ranges (internal/helper/ip.go)
\* b is a plus one, both read as big-endian unsigned integers of one length
IsSuccessor(a, b) ==
    /\ Len(a) = Len(b)
    /\ \E j \in 1 .. Len(a) :
          /\ a[j] < 255 /\ b[j] = a[j] + 1
          /\ \A i \in 1 .. j - 1 : b[i] = a[i]
          /\ \A i \in j + 1 .. Len(a) : a[i] = 255 /\ b[i] = 0

\* a is before b in byte-wise lexicographic order (equal lengths)
LexLess(a, b) ==
    \E j \in 1 .. Len(a) : a[j] < b[j] /\ \A i \in 1 .. j - 1 : a[i] = b[i]

LexLeq(a, b) == a = b \/ LexLess(a, b)

\* the address is an IPv4 address or an IPv4-mapped IPv6 address
IsV4Form(a) ==
    \/ Len(a) = 4
    \/ /\ Len(a) = 16
       /\ \A i \in 1 .. 10 : a[i] = 0
       /\ a[11] = 255 /\ a[12] = 255

\* the last four bytes of an address
LastFour(a) == [i \in 1 .. 4 |-> a[Len(a) - 4 + i]]

\* C11: for every range [start, end] of same-length addresses with
\* start <= end, the list GetIPsInRange builds begins with start, each
\* element is the byte-counter successor of the one before it and is greater
\* than it, and the list it returns ends with end.
C11_EnumeratesRange ==
    (/\ gpc \in {"loop", "done"}
     /\ Len(ipRange.Start) = Len(ipRange.End)
     /\ LexLeq(ipRange.Start, ipRange.End))
    => /\ \A i \in 1 .. Len(ips) :
             /\ i = 1 => ips[i] = ipRange.Start
             /\ i > 1 => IsSuccessor(ips[i - 1], ips[i]) /\ LexLess(ips[i - 1], ips[i])
       /\ gpc = "done" => ips # <<>> /\ ips[Len(ips)] = ipRange.End

\* C12: enumeration is finite for every range ParseIPOrSubnet returns:
\* GetIPsInRange stops once it has appended the end of the range, so the end
\* address is never followed by another address (a loop that goes on past the
\* end starts again below it and never ends).
C12_EnumerationStopsAtEnd ==
    (ppc = "returned" /\ gpc \in {"loop", "done"})
    => \A i \in 1 .. Len(ips) - 1 : ips[i] # ipRange.End

\* a CIDR text the library accepts
WellFormedCIDR(t) ==
    t.slash /\ t.fam \in {"v4", "v6"} /\ t.plen >= 0 /\ t.plen <= 8 * Len(t.addr)

\* the number of bits of byte i that lie outside a prefix of n bits
HostBits(n, i) ==
    IF 8 * i - n >= 8 THEN 8 ELSE IF 8 * i - n <= 0 THEN 0 ELSE 8 * i - n

\* address AND mask, and that with every bit outside the mask set to 1
NetworkOf(t) == [i \in 1 .. Len(t.addr) |->
                    t.addr[i] - (t.addr[i] % Pow2(HostBits(t.plen, i)))]
BroadcastOf(t) == [i \in 1 .. Len(t.addr) |->
                    NetworkOf(t)[i] + Pow2(HostBits(t.plen, i)) - 1]

\* C13: for every well-formed CIDR text (IPv4, IPv6, IPv4-mapped IPv6)
\* ParseIPOrSubnet returns, without crashing, the range from address AND mask
\* to that address with every bit outside the mask set (in the 16-byte or the
\* 4-byte form), start <= end, both of one length; for a malformed CIDR text
\* it returns an error and no range.
C13_SubnetRange ==
    (ppc \in {"returned", "panic"} /\ ipOrSubnet.slash)
    => /\ ppc = "returned"
       /\ IF WellFormedCIDR(ipOrSubnet)
          THEN /\ ~parsed.err /\ ~parsed.range.nil
               /\ \/ /\ parsed.range.Start = NetworkOf(ipOrSubnet)
                     /\ parsed.range.End = BroadcastOf(ipOrSubnet)
                  \/ /\ IsV4Form(ipOrSubnet.addr)
                     /\ parsed.range.Start = LastFour(NetworkOf(ipOrSubnet))
                     /\ parsed.range.End = LastFour(BroadcastOf(ipOrSubnet))
               /\ Len(parsed.range.Start) = Len(parsed.range.End)
               /\ LexLeq(parsed.range.Start, parsed.range.End)
          ELSE parsed.err /\ parsed.range.nil

\* C14: for a text without '/', ParseIPOrSubnet returns an error and no range
\* (unparseable address), or a range with start = end = the parsed address,
\* in 4-byte form when the address is IPv4 or IPv4-mapped IPv6 and in
\* 16-byte form otherwise.
C14_SingleAddress ==
    (ppc \in {"returned", "panic"} /\ ~ipOrSubnet.slash)
    => /\ ppc = "returned"
       /\ IF ipOrSubnet.fam \notin {"v4", "v6"}
          THEN parsed.err /\ parsed.range.nil
          ELSE /\ ~parsed.err /\ ~parsed.range.nil
               /\ parsed.range.Start = parsed.range.End
               /\ parsed.range.Start =
                      IF IsV4Form(ipOrSubnet.addr)
                      THEN LastFour(ipOrSubnet.addr) ELSE ipOrSubnet.addr
               /\ Len(parsed.range.Start) = IF IsV4Form(ipOrSubnet.addr) THEN 4 ELSE 16

\* the IPv4-mapped literal ::ffff:192.168.1.0 came back as 192.168.1.0
C14_Witness ==
    /\ ppc = "returned" /\ ~ipOrSubnet.slash
    /\ ipOrSubnet.fam = "v6" /\ IsV4Form(ipOrSubnet.addr)
    /\ parsed.range.Start = <<192, 168, 1, 0>>

\* C15: NextIP returns a new address of the input's length that is the input
\* plus one as a big-endian unsigned integer, carrying into higher-order
\* bytes, for every input that is not all-ones; the caller's address is as it
\* was before the call.
C15_NextIPIncrements ==
    hpc = "next"
    => /\ hbuf = ip1
       /\ Len(hres.next) = Len(ip1)
       /\ ~AllFF(ip1) => IsSuccessor(ip1, hres.next)

\* 192.168.1.255 -> 192.168.2.0
C15_Witness ==
    /\ hpc = "next"
    /\ ip1 = <<192, 168, 1, 255>>
    /\ hres.next = <<192, 168, 2, 0>>

\* -1, 0 or 1 by byte-wise lexicographic order
Lex3(a, b) == IF a = b THEN 0 ELSE IF LexLess(a, b) THEN -1 ELSE 1

\* C16: CompareIPs returns -1, 0 or 1 by byte-wise lexicographic order for
\* addresses of equal length; for addresses of different lengths it does not
\* crash and returns the comparison of the 4-byte forms when both are IPv4
\* or IPv4-mapped, and 0 otherwise.
C16_CompareIPsDefined ==
    hpc = "compared"
    => /\ ~hres.panic
       /\ hres.val =
             IF Len(ip1) = Len(ip2) THEN Lex3(ip1, ip2)
             ELSE IF IsV4Form(ip1) /\ IsV4Form(ip2)
                  THEN Lex3(LastFour(ip1), LastFour(ip2))
                  ELSE 0

\* an IPv4 address compared equal to its IPv4-mapped IPv6 form
C16_Witness ==
    /\ hpc = "compared"
    /\ ip1 = <<192, 168, 1, 0>>
    /\ ip2 = V4InV6Prefix \o <<192, 168, 1, 0>>
    /\ hres.val = 0

\* ---- empty lists and all-failing lists
\* C17 as stated, for every concurrency value: with an empty target list an
\* orchestrator run and a multi-batch scan start no probe, do not crash, and
\* return zero records and zero errors.
C17_EmptyList_AnyConcurrency ==
    domains = <<>>
    => /\ attempted = {}
       /\ runpc # "panic"
       /\ scanpc = "done" => allCertDetails = <<>> /\ allErrors = EmptyMap
       /\ (scanpc = "directrun" /\ runpc = "returned")
              => retDetails = <<>> /\ retErr.nil

\* C17: with an empty target list a multi-batch scan (any concurrency, any
\* chunk size) and an orchestrator run with a concurrency of 0 or more start
\* no probe and return zero records and zero errors; the run does not crash.
C17_EmptyList ==
    domains = <<>>
    => /\ attempted = {}
       /\ scanpc = "done" => allCertDetails = <<>> /\ allErrors = EmptyMap
       /\ (scanpc = "directrun" /\ concurrency >= 0)
              => /\ runpc # "panic"
                 /\ runpc = "returned" => retDetails = <<>> /\ retErr.nil

\* a run of the empty list with concurrency 0 has returned
C17_Witness ==
    /\ domains = <<>> /\ concurrency = 0
    /\ scanpc = "directrun" /\ runpc = "returned"
    /\ retDetails = <<>> /\ retErr.nil

\* C18: when every probe fails, a scan over pairwise distinct targets with
\* concurrency >= 1 and chunk size >= 1 returns zero records and an error map
\* whose keys are exactly the input targets.
C18_AllFail ==
    (/\ scanpc = "done"
     /\ concurrency >= 1 /\ chunkSize >= 1
     /\ Distinct(domains)
     /\ \A p \in DOMAIN outcome : outcome[p] = "failed")
    => /\ allCertDetails = <<>>
       /\ DOMAIN allErrors = {domains[i] : i \in DOMAIN domains}

\* 3 targets, concurrency 2, chunk size 2, every probe failed
C18_Witness ==
    /\ scanpc = "done"
    /\ Len(domains) = 3 /\ Distinct(domains)
    /\ concurrency = 2 /\ chunkSize = 2
    /\ DOMAIN outcome = 1 .. 3
    /\ \A p \in DOMAIN outcome : outcome[p] = "failed"
    /\ Cardinality(DOMAIN allErrors) = 3

\* ---- the probe
\* a reason is in the record's reason list
HasReason(c, reason) == \E i \in DOMAIN c.ValidationErrs : c.ValidationErrs[i] = reason

\* C19: when the dial succeeds and the peer presents a non-empty chain, the
\* probe returns a record and no error whatever verification and the
\* validity-window check report; a failed check marks the record invalid
\* with at least one reason, and the task deposits the record, not a failure.
C19_ValidationFailureIsNotProbeFailure ==
    (/\ fpc \in {"returned", "record", "failure"}
     /\ ~peer.dialErr /\ peer.getter /\ peer.certs >= 1)
    => /\ fret.nil
       /\ fpc # "failure"
       /\ cd.Domain = ProbeTarget
       /\ (peer.verify # "ok" \/ peer.now < peer.notBefore \/ peer.now > peer.notAfter)
              => ~cd.Valid /\ cd.ValidationErrs # <<>>

\* a record of a certificate signed by an unknown authority was deposited
C19_Witness ==
    /\ fpc = "record"
    /\ peer.verify = "UnknownAuthorityError"
    /\ ~cd.Valid
    /\ HasReason(cd, "Certificate signed by unknown authority (possibly self-signed)")

\* C20: in a returned record, a current time after NotAfter gives
\* valid = false and the reason "Certificate has expired", and a current time
\* before NotBefore gives valid = false and the reason "Certificate is not
\* yet valid", whatever chain verification reported.
C20_WindowAlwaysChecked ==
    (fpc \in {"returned", "record"} /\ fret.nil)
    => /\ peer.now > peer.notAfter
            => ~cd.Valid /\ HasReason(cd, "Certificate has expired")
       /\ peer.now < peer.notBefore
            => ~cd.Valid /\ HasReason(cd, "Certificate is not yet valid")

\* verification had already failed and the certificate is also expired
C20_Witness ==
    /\ fpc = "returned" /\ fret.nil
    /\ peer.verify = "HostnameError"
    /\ peer.now > peer.notAfter
    /\ Len(cd.ValidationErrs) = 2
    /\ HasReason(cd, "Certificate has expired")

\* the two reasons of the validity-window check
WindowReasons == {"Certificate is not yet valid", "Certificate has expired"}

\* C21: in every record a probe returns without error, valid is true exactly
\* when the reason list is empty; a failed chain verification contributes
\* exactly one reason, and it stands before every validity-window reason.
C21_ValidIffNoReasons ==
    (fpc \in {"returned", "record"} /\ fret.nil)
    => /\ cd.Valid <=> cd.ValidationErrs = <<>>
       /\ Cardinality({i \in DOMAIN cd.ValidationErrs :
                          cd.ValidationErrs[i] \notin WindowReasons})
              = (IF peer.verify = "ok" THEN 0 ELSE 1)
       /\ peer.verify # "ok" =>
              /\ cd.ValidationErrs # <<>>
              /\ cd.ValidationErrs[1] \notin WindowReasons
              /\ \A i \in DOMAIN cd.ValidationErrs :
                     i > 1 => cd.ValidationErrs[i] \in WindowReasons

\* verification failed on a certificate that is also outside its window: the
\* verification reason is first, the window reason second
C21_Witness ==
    /\ fpc = "returned" /\ fret.nil
    /\ peer.verify = "Expired" /\ peer.now > peer.notAfter
    /\ ~cd.Valid
    /\ cd.ValidationErrs = <<"Certificate has expired or is not yet valid",
                             "Certificate has expired">>

\* the reverse lookup of the peer's address gives no name: it times out,
\* fails, or returns an empty list
LookupFails == peer.lookup.timeout \/ peer.lookup.err \/ peer.lookup.names = <<>>

\* C22: for an IP target whose dial succeeded and whose peer presented a
\* non-empty chain, a reverse lookup that fails, returns no names or times
\* out never makes the probe fail: the record is returned with no hostname
\* and hostname-match false, and the chain was verified without a
\* verification name.
C22_LookupFailureIsNotProbeFailure ==
    (/\ probeKind = "ip" /\ fpc \in {"returned", "record", "failure"}
     /\ ~peer.dialErr /\ peer.getter /\ peer.certs >= 1
     /\ LookupFails)
    => /\ fret.nil /\ fpc # "failure"
       /\ cd.Hostname = <<>> /\ ~cd.HostnameInCert
       /\ opts.built /\ opts.DNSName = <<>>

\* the lookup timed out for a peer whose leaf has an empty common name; the
\* record was deposited
C22_Witness ==
    /\ probeKind = "ip" /\ fpc = "record"
    /\ peer.lookup.timeout
    /\ peer.cert.CommonName = <<>> /\ peer.cert.DNSNames = <<>>
    /\ cd.IP = ProbeTarget /\ cd.Hostname = <<>> /\ ~cd.HostnameInCert
    /\ opts.built

\* ---- the helpers
\* the names a certificate carries
CertNames(cert) == {cert.CommonName} \cup {cert.DNSNames[i] : i \in DOMAIN cert.DNSNames}

\* C23: isHostnameInCert(cert, h) is true exactly when h equals, character
\* for character, the certificate's common name or one of its DNS names; a
\* wildcard name, a parent domain or a name differing in case is no match.
C23_ExactMatchOnly ==
    (fn = "isHostnameInCert" /\ ret.done)
    => (ret.val <=> arg.hostname \in CertNames(arg.cert))

\* a.x is looked up in a certificate for *.x, A.x and x: no match
C23_Witness ==
    /\ fn = "isHostnameInCert" /\ ret.done /\ ~ret.val
    /\ arg.hostname = <<"a", ".", "x">>
    /\ arg.cert.CommonName = <<"*", ".", "x">>
    /\ arg.cert.DNSNames = <<<<"A", ".", "x">>, <<"x">>>>

\* the text has the eight characters "dial tcp" / "connect:" in a row
HasDialTcp(s) ==
    \E i \in DOMAIN s :
        /\ i + 7 <= Len(s)
        /\ s[i] = "d" /\ s[i + 1] = "i" /\ s[i + 2] = "a" /\ s[i + 3] = "l"
        /\ s[i + 4] = " " /\ s[i + 5] = "t" /\ s[i + 6] = "c" /\ s[i + 7] = "p"
HasConnect(s) ==
    \E i \in DOMAIN s :
        /\ i + 7 <= Len(s)
        /\ s[i] = "c" /\ s[i + 1] = "o" /\ s[i + 2] = "n" /\ s[i + 3] = "n"
        /\ s[i + 4] = "e" /\ s[i + 5] = "c" /\ s[i + 6] = "t" /\ s[i + 7] = ":"

\* C26: IsConnectionError(err) is false for nil and otherwise true exactly
\* when the message contains "dial tcp" or "connect:"; so the failures of a
\* network dial are connection-class and the probe's other failures (no
\* certificates, a connection that is not a TLS connection, a failed
\* handshake) are not.
C26_ConnectionClass ==
    (fn = "IsConnectionError" /\ ret.done)
    => /\ arg.err.nil => ~ret.val
       /\ ~arg.err.nil => (ret.val <=> (HasDialTcp(arg.err.msg) \/ HasConnect(arg.err.msg)))
       /\ \A kind \in {"domain", "ip"} :
             /\ \A e \in NetDialFailures :
                    arg.err = ErrorWith(ErrorText(kind, e)) => ret.val
             /\ \A e \in OtherFailures :
                    arg.err = ErrorWith(ErrorText(kind, e)) => ~ret.val

\* a dial that timed out (its message has "dial tcp" and no "connect:") was
\* classified connection-class
C26_Witness ==
    /\ fn = "IsConnectionError" /\ ret.done /\ ret.val
    /\ arg.err = ErrorWith(ErrorText("ip", FetchErr("timeout")))
    /\ ~HasConnect(arg.err.msg)

\* C24: when the dialer returns an error, the probe returns that same error
\* and leaves every field of the record unset, whether or not the dialer
\* returned a connection object beside the error; the task reports a failure.
C24_DialErrorReturnedUnchanged ==
    (peer.dialErr /\ fpc \in {"returned", "record", "failure"})
    => /\ ~fret.nil /\ fret = peer.err
       /\ cd = EmptyRecord
       /\ opts = NoOpts
       /\ fpc # "record"

\* a dialer returned a connection object and a handshake error
C24_Witness ==
    /\ fpc = "returned"
    /\ peer.dialErr /\ peer.conn /\ peer.err = FetchErr("handshake")
    /\ fret = FetchErr("handshake")
    /\ cd.Serial = "" /\ cd.Domain = ""

\* the text ends with the probe's target
NamesTarget(s) == s # <<>> /\ s[Len(s)] = ProbeTarget

\* C25: when the connection is established and the peer presents an empty
\* chain, the probe fails with the 'no certificates found' error that names
\* the target; no validation was run (no verify options built, no valid
\* flag, no reasons), and the task counts a failure and deposits no record.
C25_EmptyChainFails ==
    (/\ ~peer.dialErr /\ peer.getter /\ peer.certs = 0
     /\ fpc \in {"returned", "record", "failure"})
    => /\ fret = FetchErr("noCerts")
       /\ Contains(ErrorText(probeKind, fret), <<"n", "o", " ", "c", "e", "r", "t", "i", "f", "i", "c", "a", "t", "e", "s", " ", "f", "o", "u", "n", "d", " ", "f", "o", "r">>)
       /\ NamesTarget(ErrorText(probeKind, fret))
       /\ opts = NoOpts /\ ~cd.Valid /\ cd.ValidationErrs = <<>> /\ cd.Serial = ""
       /\ fpc # "record"
       /\ fpc = "failure" => totalScrapes = [success |-> 0, failed |-> 1]

\* the task of a domain whose peer presented no certificate counted a failure
C25_Witness ==
    /\ probeKind = "domain" /\ fpc = "failure"
    /\ ~peer.dialErr /\ peer.getter /\ peer.certs = 0
    /\ fret = FetchErr("noCerts")
    /\ totalScrapes.failed = 1

\* ---- merging the failures of the batches
\* list positions whose probe failed, and the batch a list position is in
FailedPositions == {p \in DOMAIN outcome : outcome[p] = "failed"}
BatchOf(p) == CHOOSE j \in DOMAIN chunks : SumLen(chunks, j - 1) < p /\ p <= SumLen(chunks, j)

\* the failed positions of target d, and the last batch in which d failed
FailedOf(d) == {p \in FailedPositions : domains[p] = d}
LastFailedBatch(d) ==
    CHOOSE j \in {BatchOf(p) : p \in FailedOf(d)} :
        \A p \in FailedOf(d) : BatchOf(p) <= j

\* C27: after a scan, the keys of the error map are the union of the
\* batches' failure keys, and each key maps to a failure of the last batch in
\* which that target failed: a later run's failure overwrites an earlier one.
C27_MergeLastWins ==
    scanpc = "done"
    => /\ DOMAIN allErrors = {domains[p] : p \in FailedPositions}
       /\ \A d \in DOMAIN allErrors :
              \E p \in FailedOf(d) :
                  /\ BatchOf(p) = LastFailedBatch(d)
                  /\ allErrors[d] = ProbeError(p)

\* target a is first and third in a list scanned in batches of two and fails
\* both times: the error map holds the failure of the second batch
C27_Witness ==
    /\ scanpc = "done"
    /\ domains = <<"a", "b", "a">> /\ chunkSize = 2
    /\ FailedPositions = {1, 2, 3}
    /\ allErrors["a"] = ProbeError(3)
    /\ allErrors["b"] = ProbeError(2)

\* ---- metrics
\* list positions whose task has deposited its outcome and counted itself:
\* those of the batches already run and the finished tasks of this run
CountedPositions ==
    {p \in DOMAIN outcome :
        \/ p <= SumLen(chunks, k - 1)
        \/ /\ p - SumLen(chunks, k - 1) \in DOMAIN pc
           /\ pc[p - SumLen(chunks, k - 1)] \in {"wgdone", "finished"}}

\* each counted task added one to the counter of its outcome and one
\* observation to the series of its target, and nothing else did; a run
\* starts with the counters at the number of targets of the earlier runs and
\* returns with them grown by the number of its own targets
C28_Counts ==
    scanpc \in {"loop", "inrun", "done", "directrun"} =>
        /\ totalScrapes.success =
               Cardinality({p \in CountedPositions : outcome[p] = "ok"})
        /\ totalScrapes.failed =
               Cardinality({p \in CountedPositions : outcome[p] = "failed"})
        /\ \A d \in Names :
               scrapeDuration[d] = Cardinality({p \in CountedPositions : domains[p] = d})
        /\ (scanpc = "loop" /\ k <= Len(chunks) + 1) =>
               totalScrapes.success + totalScrapes.failed = SumLen(chunks, k - 1)
        /\ (scanpc \in {"inrun", "directrun"} /\ runpc = "returned") =>
               totalScrapes.success + totalScrapes.failed
                   = SumLen(chunks, k - 1) + Len(websites)

\* no step lowers a counter
C28_Monotone ==
    /\ totalScrapes'.success >= totalScrapes.success
    /\ totalScrapes'.failed >= totalScrapes.failed

\* C28: every probe task increments exactly one of the success / failed
\* counters, once, matching its outcome, and records one duration
\* observation under its target's label; the counters never decrease; when
\* a run returns, success + failed has grown by the number of its targets.
C28_MetricsPerTask == [](C28_Counts) /\ [][C28_Monotone]_vars

\* the second run of a scan of <<a, a>> in batches of one has returned: the
\* first probe failed, the second succeeded, two observations under a
C28_Witness ==
    /\ scanpc = "inrun" /\ runpc = "returned" /\ k = 2
    /\ domains = <<"a", "a">> /\ chunkSize = 1
    /\ outcome = <<"failed", "ok">>
    /\ totalScrapes = [success |-> 1, failed |-> 1]
    /\ scrapeDuration["a"] = 2 /\ scrapeDuration["b"] = 0

\* ---- OCSP
\* a response was obtained and parsed, and its status is good
GoodResponse ==
    /\ checker.servers # <<>> /\ checker.create = "ok" /\ checker.post = "ok"
    /\ checker.read = "ok" /\ checker.parse = "ok"
    /\ (checker.hasCert => checker.reparse = "ok")
    /\ checker.status = "Good"

\* without a responder both methods fail with 'no OCSP server specified in
\* cert' and no request was built or sent
NoResponderFails ==
    (checker.servers = <<>> /\ oret.got.returned)
    => /\ oret.got.err = "no OCSP server specified in cert"
       /\ requests = NoRequests
       /\ oret.check.returned => oret.check.err = "no OCSP server specified in cert"

\* CheckOCSPStatus returns nil exactly for a good response and returns an
\* error of GetOCSPResp unchanged
StatusChecked ==
    oret.check.returned
    => /\ oret.check.err = "nil" <=> GoodResponse
       /\ oret.got.err # "nil" => oret.check.err = oret.got.err
       /\ (oret.got.err = "nil" /\ oret.got.resp # "Good")
              => oret.check.err = "invalid OCSP status"

\* C29 as claimed: with a responder, exactly one request is sent, to the
\* first URL.
C29_ExactlyOneRequest ==
    /\ NoResponderFails
    /\ StatusChecked
    /\ (checker.servers # <<>> /\ oret.got.returned)
           => requests.posted = <<checker.servers[1]>>

\* C29 amended: without a responder both methods fail before a request is
\* built or sent; with one, at most one request is built and sent, to the
\* first URL only, and exactly one whenever the request could be built;
\* CheckOCSPStatus returns nil exactly for a good response and returns any
\* GetOCSPResp error unchanged.
C29_AtMostOneRequest ==
    /\ NoResponderFails
    /\ StatusChecked
    /\ requests.built <= 1 /\ Len(requests.posted) <= requests.built
    /\ \A i \in DOMAIN requests.posted : requests.posted[i] = checker.servers[1]
    /\ (checker.servers # <<>> /\ oret.got.returned)
           => requests.posted = (IF checker.create = "ok"
                                 THEN <<checker.servers[1]>> ELSE <<>>)

\* the POST to the first of two responders failed: CheckOCSPStatus returned
\* that error and the second responder was never asked
C29_Witness ==
    /\ method = "CheckOCSPStatus" /\ oret.check.returned
    /\ checker.servers = <<"u1", "u2">>
    /\ checker.post = "err"
    /\ requests.posted = <<"u1">>
    /\ oret.check.err = "post"

\* ---- main
\* the target options that are set
SetOptions == {f \in {"FQDN", "FilePath", "IPAddr", "Subnet"} : config[f] # ""}

\* C30: the configuration is accepted exactly when one of fqdn, filepath, ip
\* and subnet is non-empty; otherwise main stops with a message and starts
\* no scan; an accepted configuration starts the IP scan when ip or subnet
\* is set and the domain scan otherwise, and never both.
C30_ExactlyOneOption ==
    /\ mpc # "validate" => (mpc # "exited" <=> Cardinality(SetOptions) = 1)
    /\ mpc = "exited" => fatal # "" /\ started = <<>>
    /\ mpc # "exited" => fatal = ""
    /\ mpc # "returned" => started = <<>>
    /\ mpc = "returned" =>
           started = <<IF SetOptions \subseteq {"IPAddr", "Subnet"}
                       THEN "ScanIPAddresses" ELSE "ScanDomains">>

\* a configuration with only a subnet ran the IP scan
C30_Witness ==
    /\ mpc = "returned"
    /\ config = [FQDN |-> "", FilePath |-> "", IPAddr |-> "", Subnet |-> "x"]
    /\ started = <<"ScanIPAddresses">>

\* a name without its last character when that character is a dot
StripOneDot(n) ==
    IF n # <<>> /\ n[Len(n)] = "." THEN SubSeq(n, 1, Len(n) - 1) ELSE n

\* what a returned call of reverseDNSLookup holds: the timeout error when
\* the timer case was taken; otherwise the delivered answer's error, an
\* error for an answer without names, or its first name less one dot
C31_Outcome ==
    lpc = "returned" =>
        /\ lret.returned
        /\ lvia \in {"result", "timer"}
        /\ lvia = "timer" => lret.err = "timeout" /\ lret.hostname = <<>>
        /\ lvia = "result" =>
            /\ gopc = "done"
            /\ IF resolver.err THEN lret.err = "lookup" /\ lret.hostname = <<>>
               ELSE IF resolver.names = <<>>
               THEN lret.err = "nonames" /\ lret.hostname = <<>>
               ELSE /\ lret.err = "nil"
                    /\ lret.hostname = StripOneDot(resolver.names[1])

\* once the call has returned, the returned values stay what they are
C31_Final == lpc = "returned" => lpc' = "returned" /\ lret' = lret /\ lvia' = lvia

\* C31: reverseDNSLookup returns exactly one outcome of the race between
\* the lookup and the five-second timer: the received answer (its first
\* name with one trailing dot stripped, the lookup error, or an error for
\* no names), or the timeout error; an answer delivered after the timeout
\* changes nothing of what was returned
C31_OneOutcomeOfTheRace == [](C31_Outcome) /\ [][C31_Final]_vars

\* the timer won, and the answer (a name with two trailing dots among
\* them) was delivered afterwards into the channel nobody reads
C31_Witness ==
    /\ lpc = "returned" /\ lvia = "timer" /\ lret.err = "timeout"
    /\ gopc = "done" /\ resultChan = <<resolver>>
    /\ resolver.names # <<>> /\ resolver.names[1] = <<"h", ".", ".">>

\* C37: the lookup goroutine never stays blocked on its send: once
\* net.LookupAddr has returned, the one send into the channel of capacity 1
\* completes and the goroutine ends, whether or not the caller is still
\* waiting
C37_LookupTaskTerminates == (gopc = "send") ~> (gopc = "done")

\* the caller had returned on the timeout while the goroutine was still
\* looking up; the goroutine then delivered into the buffer and ended
C37_Witness ==
    /\ lvia = "timer" /\ lpc = "returned"
    /\ gopc = "done" /\ Len(resultChan) = 1 /\ timerFired

\* no step of an enumeration and no write of the caller into a returned
\* address changes the range
C32_Frame == gpc \in {"call", "loop", "done"} => ipRange' = ipRange

\* the second enumeration has returned the list the first one returned
C32_Same == gpc = "done" /\ round \in {3, 4} => ips = first

\* C32: GetIPsInRange leaves Start and End of the range as they were, no
\* returned address shares its buffer with the range (a write into one
\* changes neither the range nor a later enumeration), and enumerating the
\* same range again returns the same list
C32_RestartableEnumeration == [](C32_Same /\ shared = {}) /\ [][C32_Frame]_vars

\* a range across a byte carry was enumerated, the caller wrote into a
\* returned address, and the second enumeration returned the four
\* addresses again
C32_Witness ==
    /\ gpc = "done" /\ round = 4
    /\ ipRange.Start = <<192, 168, 1, 254>> /\ ipRange.End = <<192, 168, 2, 1>>
    /\ ips = first /\ Len(ips) = 4 /\ ips[1] = <<192, 168, 1, 254>>

\* 10 to the power e
RECURSIVE Pow10(_)
Pow10(e) == IF e = 0 THEN 1 ELSE 10 * Pow10(e - 1)

\* the sum of the values of the places 1..i of a text of digits
RECURSIVE PlaceSum(_, _)
PlaceSum(d, i) ==
    IF i = 0 THEN 0
    ELSE PlaceSum(d, i - 1)
         + (CASE d[i] = "0" -> 0 [] d[i] = "3" -> 3 [] d[i] = "5" -> 5 [] d[i] = "6" -> 6)
           * Pow10(Len(d) - i)

\* a text is a decimal numeral: an optional sign and at least one digit
IsDecimal(t) ==
    /\ t # <<>>
    /\ \A i \in 2 .. Len(t) : t[i] \in {"0", "3", "5", "6"}
    /\ t[1] \in {"0", "3", "5", "6", "+", "-"}
    /\ t[1] \in {"+", "-"} => Len(t) > 1

\* the integer a decimal numeral denotes
Denoted(t) ==
    IF t[1] = "-" THEN 0 - PlaceSum(Tail(t), Len(t) - 1)
    ELSE IF t[1] = "+" THEN PlaceSum(Tail(t), Len(t) - 1)
    ELSE PlaceSum(t, Len(t))

\* C33: ParsePort returns 443 for the empty text, n for a decimal numeral
\* denoting n with 1 <= n <= 65535, and an error with the value 0 for every
\* other text
C33_ParsePort ==
    portRet.returned =>
        IF port = <<>> THEN portRet.val = 443 /\ portRet.err = "nil"
        ELSE IF IsDecimal(port) /\ Denoted(port) >= 1 /\ Denoted(port) <= 65535
        THEN portRet.val = Denoted(port) /\ portRet.err = "nil"
        ELSE portRet.val = 0 /\ portRet.err # "nil"

\* the highest port was parsed
C33_Witness ==
    /\ port = <<"6", "5", "5", "3", "5">>
    /\ portRet.returned /\ portRet.val = 65535 /\ portRet.err = "nil"

\* the run in progress has goroutines at work
RunActive == runpc \in {"dispatch", "rangeResults", "rangeErrors"}

\* the tasks of the run that have sent their message
Sent == {t \in DOMAIN pc : pc[t] \in {"wgdone", "finished"}}

\* a task about to deposit finds both channels open and can take its step
C34_DepositEnabled ==
    \A t \in DOMAIN pc :
        (RunActive /\ pc[t] = "deposit") =>
            /\ ~resultsClosed /\ ~errorsClosed
            /\ ENABLED Deposit(t)

\* every task sends one message: the records sent are those of the tasks
\* past their deposit whose probe succeeded, and the failures in the
\* failure channel are at most those of the tasks whose probe failed
C34_OneMessageEach ==
    RunActive =>
        /\ Len(results) + Len(details) = Cardinality({t \in Sent : terr[t].nil})
        /\ Len(errorChan) <= Cardinality({t \in Sent : ~terr[t].nil})
        /\ Len(results) <= Len(websites) /\ Len(errorChan) <= Len(websites)

\* with a limit of 1 or more, a run whose probes all return always has a
\* step to take until it returns
C34_NoDeadlock == (RunActive /\ concurrency >= 1 /\ slow = 0) => ENABLED RunNext

\* C34: no task ever blocks when depositing its outcome: both channels have
\* room for one message of every task and every task sends one message, so
\* a task at its deposit can always proceed, and the collector, which
\* drains all records before any failure, never deadlocks with the tasks
C34_DepositNeverBlocks == C34_DepositEnabled /\ C34_OneMessageEach /\ C34_NoDeadlock

\* both tasks have failed and finished while the collector is still ranging
\* over the records: the two failures sit in the failure channel
C34_Witness ==
    /\ runpc = "rangeResults" /\ ~resultsClosed
    /\ Len(websites) = 2 /\ Len(errorChan) = 2
    /\ \A t \in DOMAIN pc : pc[t] = "finished"

\* list positions whose probe has started and not returned
InFlight == attempted \ DOMAIN outcome

\* a multi-batch scan is under way or done (not a run called on its own)
ScanMode == scanpc \in {"start", "chunking", "loop", "inrun", "done"}

\* the smaller of two limits, and 0 when that is negative
AtMost(a, b) == LET m == IF a < b THEN a ELSE b IN IF m < 0 THEN 0 ELSE m

\* every probe of an earlier batch has returned once a probe has started
C35_BatchesInOrder ==
    ScanMode =>
        \A p \in attempted : \A q \in 1 .. Len(domains) :
            (q <= SumLen(chunks, Len(chunks)) /\ BatchOf(q) < BatchOf(p))
                => q \in DOMAIN outcome

\* the probes in flight are at most min(concurrency, chunk size)
C35_InFlightBound ==
    ScanMode => Cardinality(InFlight) <= AtMost(concurrency, chunkSize)

\* C35: the batches of a scan are processed one after another: no probe of
\* a batch starts before every probe of the batches before it has returned,
\* so at any instant the probes in flight across the whole scan are at most
\* min(concurrency, chunk size)
C35_BatchesStrictlySequential == C35_BatchesInOrder /\ C35_InFlightBound

\* the probe of the second batch is in flight after the probe of the first
\* batch has returned, under a limit of 2 and a chunk size of 1
C35_Witness ==
    /\ scanpc = "inrun" /\ k = 2 /\ concurrency = 2 /\ chunkSize = 1
    /\ InFlight = {2} /\ 1 \in DOMAIN outcome

\* the tasks of the run that are executing their probe
Probing == {t \in DOMAIN pc : pc[t] = "fetch"}

\* the slots taken are those of the tasks executing their probe: a task
\* holds one slot from before its probe starts until its probe has
\* returned, and none while it waits, deposits or is finished
C36_OneSlotPerProbe == sem = Cardinality(Probing)

\* a task at or past its deposit has its probe's outcome, success or
\* failure, and is not among the holders of a slot
C36_ReleasedBeforeDeposit ==
    \A t \in DOMAIN pc :
        (RunActive /\ pc[t] \in {"deposit", "wgdone", "finished"}) =>
            /\ Pos(t) \in DOMAIN outcome
            /\ t \notin Probing

\* C36: every task acquires one slot before its probe and releases one slot
\* after the probe returns, on the success path and on the failure path
\* alike, before it deposits its outcome; when a run returns every slot is
\* free
C36_SemaphoreDiscipline ==
    /\ C36_OneSlotPerProbe
    /\ C36_ReleasedBeforeDeposit
    /\ runpc = "returned" => sem = 0

\* a run of two tasks under a limit of 2 has returned with one success and
\* one failure, and no slot is taken
C36_Witness ==
    /\ runpc = "returned" /\ sem = 0 /\ concurrency = 2
    /\ Len(websites) = 2 /\ Cardinality(Failed) = 1 /\ Cardinality(Succeeded) = 1

\* C38: with a concurrency limit of 0 and a non-empty target list a run
\* never starts a probe: every dispatched task stays at its acquire, no
\* outcome is deposited, and the run never returns
C38_ZeroLimitBlocks ==
    (concurrency = 0 /\ websites # <<>>) =>
        /\ runpc # "returned"
        /\ attempted = {} /\ DOMAIN outcome = {}
        /\ \A t \in DOMAIN pc : pc[t] \in {"idle", "acquire"}
        /\ results = <<>> /\ errorChan = <<>> /\ details = <<>>
        /\ ~resultsClosed /\ ~errorsClosed

\* every task of a run of two targets waits for a slot, the closer waits
\* for the tasks and the collector waits for a record
C38_Witness ==
    /\ concurrency = 0 /\ Len(websites) = 2
    /\ runpc = "rangeResults" /\ closerpc = "wait" /\ wg = 2
    /\ \A t \in DOMAIN pc : pc[t] = "acquire"
    /\ ~ENABLED RunNext

\* C39: in every record returned for an IP target, HostnameInCert is true
\* only if the resolved hostname is present (non-empty), also when the
\* reverse lookup gives a name that is empty once its trailing dot is
\* stripped and the certificate's common name is empty
C39_MatchNeedsHostname ==
    (probeKind = "ip" /\ fpc \in {"returned", "record"} /\ fret.nil)
        => (cd.HostnameInCert => cd.Hostname # <<>>)

====
